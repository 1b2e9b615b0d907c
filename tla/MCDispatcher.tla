---------------------------- MODULE MCDispatcher ----------------------------
(* Small instances of Dispatcher. *)
EXTENDS Dispatcher

CONSTANTS a, b, c1

\* Two updates of a chat, of two chats, and without a key or a route.
TwoUpdates == {<<a, a>>, <<a, b>>, <<NoKey, Unroutable>>}

\* No updates at all.
NoUpdates == {<<>>}
=============================================================================
