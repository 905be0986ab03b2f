------------------------ MODULE MCOrderNotifications ------------------------
(***************************************************************************)
(* Values for model checking OrderNotifications.                           *)
(***************************************************************************)
EXTENDS OrderNotifications

MCMock == MockReplies
=============================================================================
