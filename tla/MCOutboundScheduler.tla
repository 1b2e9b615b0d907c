------------------------ MODULE MCOutboundScheduler ------------------------
(***************************************************************************)
(* Small instances of OutboundScheduler.                                   *)
(***************************************************************************)
EXTENDS OutboundScheduler

CONSTANTS chat, class, serial, ordered, bounded, key

Request(weight, c, l, prio, k) ==
    [weight |-> weight, chat |-> c, class |-> class, lane |-> l, prio |-> prio, key |-> k]

Limit(cap, len) == {[cap |-> cap, len |-> len]}

\* A global window, a window of every chat and a global window of the class.
Limits(global, perChat, perClass) ==
    [w \in Windows |-> CASE w = <<NoChat, NoClass>> -> global
                         [] w = <<chat, NoClass>> -> perChat
                         [] w = <<NoChat, class>> -> perClass
                         [] OTHER -> {}]

\* Requests of one lane: light ones of the chat, and heavy ones outside it that
\* have a latest-wins slot and the higher priority; the limit sets differ in the
\* chat's capacity, or pause the class.
LaneRequests ==
    {Request(1, chat, ordered, 0, NoKey), Request(2, NoChat, ordered, 1, key)}
LaneLimits ==
    {Limits(Limit(2, 1), Limit(1, 2), Limit(3, 2)),
     Limits(Limit(2, 1), Limit(2, 2), Limit(3, 2)),
     Limits(Limit(2, 1), Limit(1, 2), Limit(0, 2))}
NoBound == [l \in {} |-> 1]

\* Light requests of the chat, heavy ones of a latest-wins slot, and requests of a
\* bounded lane outside the chat.  The global window frees before the chat's, so
\* that either may be the one that a heavy request reserves.
HoldRequests ==
    {Request(1, chat, NoLane, 0, NoKey), Request(2, chat, NoLane, 0, key),
     Request(1, NoChat, bounded, 1, NoKey)}
HoldLimits == {Limits(Limit(3, 1), Limit(3, 2), {})}
TwoAtOnce == [l \in {bounded} |-> 2]

ChatRequests == {Request(1, chat, NoLane, 0, NoKey), Request(2, chat, NoLane, 0, NoKey)}
ChatLimits == {Limits({}, Limit(3, 2), {})}
BoundedRequests == {Request(1, NoChat, bounded, 0, NoKey)}
SerialRequests == {Request(1, NoChat, serial, 0, NoKey)}
NoLimits == {Limits({}, {}, {})}
=============================================================================
