------------------------- MODULE MCOnlineStoreWriter -------------------------
(* Instances of OnlineStoreWriter for TLC                                   *)
EXTENDS OnlineStoreWriter

circumstances(messages, length, writesFail, signals, keysExpire) ==
    [messages |-> messages, length |-> length, writesFail |-> writesFail,
     signals |-> signals, keysExpire |-> keysExpire]

Recounted == {m \in Records : m.count = 1 \/ m.window = 1}
Once == {m \in Records : m.count = 1}

\* Everything goes wrong but the clock; kills alone, with counts that change and
\* with a longer topic; keys expire.
All ==
    {circumstances(Recounted \cup {Malformed, NonNumeric}, 3, TRUE, TRUE, FALSE),
     circumstances(Records, 3, FALSE, FALSE, FALSE),
     circumstances(Once, 4, FALSE, FALSE, FALSE),
     circumstances(Once \cup {Malformed}, 3, FALSE, FALSE, TRUE)}
=============================================================================
