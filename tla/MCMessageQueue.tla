--------------------------- MODULE MCMessageQueue ---------------------------
(* MessageQueue on two or three messages: m1 and m2 of the branch of d1's    *)
(* thread, m3 queued without a branch, which every driver accepts.           *)
EXTENDS MessageQueue
CONSTANTS d1, d2, m1, m2, m3
AllMatch == Drivers \X Messages
TwoBranches == {<<d1, m1>>, <<d1, m2>>, <<d1, m3>>, <<d2, m3>>}
=============================================================================
