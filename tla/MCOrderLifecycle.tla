-------------------------- MODULE MCOrderLifecycle --------------------------
(***************************************************************************)
(* Values for model checking OrderLifecycle.                               *)
(***************************************************************************)
EXTENDS OrderLifecycle

\* The adapters in their default configuration (retry_on_network_timeout off).
MCBotApi == BotApiReplies(FALSE)
MCFragment == FragmentReplies(FALSE)
MCMock == MockReplies

\* A provider whose failures tell the truth.
MCDefinite == Definite(BotApiReplies(FALSE))

\* Bot API behind a path that always answers JSON or not at all.
MCNoGarbage ==
  UNION {RepliesTo(e, BotApiTemporary(FALSE)) : e \in BotApiEvents \ {"non_json"}}
=============================================================================
