------------------------ MODULE TFragDiagnosticsLoop ------------------------
(***************************************************************************)
(* The diagnostics of a sort without a fragment tree                       *)
(* (libraries/TLoops/TFragDiagnosticsLoop.cxx): which channel ids, which   *)
(* accepted channel ids and which network packets never arrived.  The      *)
(* accepted ids are counted modulo fAcceptedMax; Process recognises that   *)
(* they roll over by the number of ids it has seen near the edge, and      *)
(* continues them in a variable of 16 bits.  The other numbers have 32     *)
(* bits, and no sort is so long that they wrap.                            *)
(*                                                                         *)
(* The state is that of one address.  The histograms of lost ids are the   *)
(* sequences of the ids that were filled into them.  The digitizer is      *)
(* external: it numbers its hits in all three ways, two to a packet, and   *)
(* sends them in order; some of them never arrive.                         *)
(***************************************************************************)
EXTENDS Naturals, Sequences, FiniteSets, SequencesExt

CONSTANTS
    AcceptedMax,        \* 2^14
    IdRange,            \* of acceptedId in Process, a UShort_t: 2^16
    RollingThreshold,   \* 1000
    RollnumThreshold,   \* 20
    FirstChannelIds, FirstAcceptedIds,
    HitBound,           \* hits in a behaviour
    MinRun,             \* hits that arrive between two that do not
    Gap                 \* and never arrive in a row

\* Between two losses more hits arrive than must be seen near an edge, an edge
\* is wider than these and a loss, the edges do not meet, and a sort does not
\* begin in the upper one.
ASSUME DiagAssumption ==
    /\ AcceptedMax \in Nat /\ RollingThreshold \in Nat /\ RollnumThreshold \in Nat
    /\ IdRange \in Nat \ {0}
    /\ 4 * RollingThreshold <= AcceptedMax
    /\ MinRun \in Nat /\ Gap \in Nat /\ HitBound \in Nat
    /\ RollnumThreshold < MinRun
    /\ RollnumThreshold + Gap + 1 < RollingThreshold
    /\ FirstChannelIds \subseteq Nat
    /\ FirstAcceptedIds \subseteq 0 .. AcceptedMax - RollingThreshold

VARIABLES
    hits,               \* [next, channel, accepted]: the digitizer's counts
    sinceGap,           \* hits that arrived since one did not
    arrived,            \* the numbers of the hits that arrived, in order
    diag                \* what Process keeps for the address

diagVars == <<hits, sinceGap, arrived, diag>>

NoHistory == [last |-> 0, middle |-> 0]   \* [0] and [1] of the code's arrays

DiagInit ==
    /\ hits \in [next : {0}, channel : FirstChannelIds, accepted : FirstAcceptedIds]
    /\ sinceGap = 0
    /\ arrived = <<>>
    /\ diag = [fRolling |-> FALSE, fRollnum |-> 0, fNofRollovers |-> 0,
               fChannelIds |-> NoHistory, fAcceptedChannelIds |-> NoHistory,
               fTimeStamps |-> NoHistory, fNetworkPacketNumber |-> NoHistory,
               lostChannelIds |-> <<>>, lostAcceptedIds |-> <<>>,
               lostNetworkPackets |-> <<>>]

ChannelId(n) == hits.channel + n
AcceptedId(n) == hits.accepted + n      \* before it is taken modulo AcceptedMax
Packet(n) == n \div 2 + 1
-----------------------------------------------------------------------------
(* Process                                                                 *)

\* Ids near the upper edge begin a rollover, ids in the lower half end it.
Rolled(d, acceptedId) ==
    LET seen == IF \/ ~d.fRolling /\ acceptedId > AcceptedMax - RollingThreshold
                   \/ /\ d.fRolling
                      /\ acceptedId > RollingThreshold
                      /\ acceptedId < AcceptedMax \div 2
                THEN d.fRollnum + 1 ELSE d.fRollnum
        turns == seen > RollnumThreshold
    IN  [d EXCEPT !.fRollnum = IF turns THEN 0 ELSE seen,
                  !.fRolling = IF turns THEN ~@ ELSE @,
                  !.fNofRollovers = IF turns /\ d.fRolling THEN @ + 1 ELSE @]

\* Faulty: during a rollover the ids beyond the edge are not continued.
UnrolledLate(d, acceptedId) ==
    (acceptedId + d.fNofRollovers * AcceptedMax) % IdRange

Unrolled(d, acceptedId) ==
    (acceptedId + d.fNofRollovers * AcceptedMax
     + IF d.fRolling /\ acceptedId < RollingThreshold * 2 THEN AcceptedMax ELSE 0)
    % IdRange

Between(history) ==
    [i \in 1 .. history.middle - history.last - 1 |-> history.last + i]
Reasonable(history, id) == history.last < history.middle /\ history.middle < id
Shifted(history, id) == [last |-> history.middle, middle |-> id]

NetworkPacket(d, packet) ==
    LET known == d.fNetworkPacketNumber IN
    IF known.last = 0
    THEN [d EXCEPT !.fNetworkPacketNumber = Shifted(known, packet)]
    ELSE IF known.middle < packet
    THEN [d EXCEPT !.fNetworkPacketNumber = Shifted(known, packet),
                   !.lostNetworkPackets = @ \o Between(known)]
    ELSE [d EXCEPT !.fNetworkPacketNumber.middle = packet]

ChannelIds(d, id, timeStamp) ==
    LET known == d.fChannelIds
        good == Reasonable(known, id)
    IN  IF known.last = 0 \/ good
        THEN [d EXCEPT !.fChannelIds = Shifted(known, id),
                       !.fTimeStamps = Shifted(@, timeStamp),
                       !.lostChannelIds = IF known.last # 0 THEN @ \o Between(known)
                                          ELSE @]
        ELSE [d EXCEPT !.fChannelIds.middle = id, !.fTimeStamps.middle = timeStamp]

AcceptedIds(d, id) ==
    LET known == d.fAcceptedChannelIds IN
    IF d.fTimeStamps.last = 0 THEN d
    ELSE IF Reasonable(known, id)
    THEN [d EXCEPT !.fAcceptedChannelIds = Shifted(known, id),
                   !.lostAcceptedIds = @ \o Between(known)]
    ELSE [d EXCEPT !.fAcceptedChannelIds.middle = id]

Process(d, channelId, acceptedId, packet, timeStamp) ==
    LET rolled == Rolled(d, acceptedId) IN
    AcceptedIds(ChannelIds(NetworkPacket(rolled, packet), channelId, timeStamp),
                Unrolled(rolled, acceptedId))
-----------------------------------------------------------------------------
(* The digitizer and the loop                                              *)

Arrive ==
    LET n == hits.next IN
    /\ n < HitBound
    /\ hits' = [hits EXCEPT !.next = n + 1]
    /\ sinceGap' = IF sinceGap < MinRun THEN sinceGap + 1 ELSE sinceGap
    /\ arrived' = Append(arrived, n)
    /\ diag' = Process(diag, ChannelId(n), AcceptedId(n) % AcceptedMax, Packet(n), n + 1)

NeverArrive ==
    /\ sinceGap >= MinRun
    /\ \E gap \in 1 .. Gap : hits' = [hits EXCEPT !.next = @ + gap]
    /\ sinceGap' = 0
    /\ UNCHANGED <<arrived, diag>>

DiagNext == Arrive \/ NeverArrive

DiagSpec == DiagInit /\ [][DiagNext]_diagVars
-----------------------------------------------------------------------------
(* What must hold                                                          *)

Increasing(ids) == \A i, j \in DOMAIN ids : i < j => ids[i] < ids[j]

\* The hits between two that never arrived.
Missing(from, to) == {n \in from + 1 .. to - 1 : n \notin Range(arrived)}

\* The unrolled ids of all hits so far fit acceptedId: with the code's numbers,
\* until the fourth rollover.
AcceptedIdsFit == AcceptedId(hits.next) <= IdRange

\* Of the accepted ids between the hits second and until, those are reported,
\* once, that never arrived.
AcceptedLossesReported(second, until) ==
    /\ Increasing(diag.lostAcceptedIds)
    /\ {id \in Range(diag.lostAcceptedIds) : id > AcceptedId(second)} =
         {AcceptedId(n) : n \in Missing(second, until)}

\* The first hit with a channel id: the code takes an id of 0 for none.
FirstKnown == IF Len(arrived) > 0 /\ ChannelId(arrived[1]) = 0 THEN 2 ELSE 1

\* While the hits arrive in order, each id that is reported as lost belongs to
\* a hit that never arrived and is reported once, and every such hit is
\* reported as soon as two later ones were seen: channel ids, packets, and, as
\* long as they fit, accepted ids over their rollovers
\* (TFragDiagnosticsLoop.cxx:212-233).  Hits before the first with a channel
\* id, and accepted ids below that of the second hit, are not claimed: the
\* code misses the first accepted id.
LostIdsAreLost ==
    LET count == Len(arrived)
        first == FirstKnown
        packets == {Packet(arrived[i]) : i \in DOMAIN arrived}
    IN  count > first + 2 =>
        LET until == arrived[count - 1]
        IN  /\ Increasing(diag.lostChannelIds)
            /\ Range(diag.lostChannelIds) =
                 {ChannelId(n) : n \in Missing(arrived[first], until)}
            /\ AcceptedIdsFit => AcceptedLossesReported(arrived[first + 1], until)
            /\ Increasing(diag.lostNetworkPackets)
            /\ Range(diag.lostNetworkPackets) =
                 (Packet(arrived[1]) + 1 .. diag.fNetworkPacketNumber.last) \ packets

\* The same of the accepted ids however often they roll over: "this section
\* deals with the rolling over of the AcceptedChannelId" (212), and
\* fNofRollovers counts them in an int.  It is violated: acceptedId is a
\* UShort_t (TFragment.h:64), so the sums of 231 and 233 wrap, and after that
\* no id is beyond the last two and no loss is reported.
LostIdsOverRollovers ==
    Len(arrived) > FirstKnown + 2 =>
        AcceptedLossesReported(arrived[FirstKnown + 1], arrived[Len(arrived) - 1])
=============================================================================
