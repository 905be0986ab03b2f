----------------------------- MODULE Providers -----------------------------
(***************************************************************************)
(* The provider adapters of src/app/providers, reduced to what the order   *)
(* executor can tell of one purchase: the verdict (a result, a             *)
(* ProviderTemporaryError or some other ProviderError), whether the        *)
(* provider really charged the wallet, and whether a result carries a      *)
(* reference.  An adapter is a classification of the events that can end   *)
(* its call; the wallet's side of an event is an assumption about the      *)
(* outside world, stated in MayHaveCharged.                                *)
(***************************************************************************)

Verdicts == {"success", "temporary", "permanent"}

\* charged: the wallet was debited; ref: the result has a reference.
Reply == [verdict : Verdicts, charged : BOOLEAN, ref : BOOLEAN]

-----------------------------------------------------------------------------
(***************************************************************************)
(* The ends of a call.                                                     *)
(***************************************************************************)

\* Bot API: what the HTTP POST gives.  "ok" is {"ok": true}; "refusal" a JSON
\* answer with a permanent description or a 4xx code; "server_refusal" any
\* other JSON answer without ok.
BotApiEvents == {"not_configured", "timeout", "network", "non_json", "ok",
                 "rate_limited", "refusal", "server_refusal"}

\* Fragment: what the library call raises ("marker", "network" and "other"
\* are texts of exceptions) or returns.
FragmentEvents == {"not_configured", "marker", "network", "other",
                   "failure_marker", "failure_other", "ok", "ok_no_ref"}

\* Mock: the user name decides.
MockEvents == {"ok", "retry_name", "fail_name"}

\* The request left and no definite answer came back: the wallet may have
\* been debited all the same.
MayHaveCharged == {"timeout", "network", "non_json", "other"}

-----------------------------------------------------------------------------
(***************************************************************************)
(* The adapters: which events are worth a retry.  retryOnTimeout is        *)
(* settings.retry_on_network_timeout.                                      *)
(***************************************************************************)

\* Wrong variant: retries whatever the setting says.
BotApiTemporaryAlways(retryOnTimeout) ==
  {"non_json", "rate_limited", "server_refusal", "timeout", "network"}

\* BotApiProvider._call for the two mutating methods.
BotApiTemporary(retryOnTimeout) ==
  {"non_json", "rate_limited", "server_refusal"}
    \cup (IF retryOnTimeout THEN {"timeout", "network"} ELSE {})

\* FragmentProvider._classify and _ensure_success.
FragmentTemporary(retryOnTimeout) ==
  {"other", "failure_other"} \cup (IF retryOnTimeout THEN {"network"} ELSE {})

MockTemporary == {"retry_name"}

\* The replies one event can amount to, given the temporary ones.
RepliesTo(event, temporary) ==
  CASE event = "ok"        -> {[verdict |-> "success", charged |-> TRUE, ref |-> TRUE]}
    [] event = "ok_no_ref" -> {[verdict |-> "success", charged |-> TRUE, ref |-> FALSE]}
    [] OTHER -> [verdict : {IF event \in temporary THEN "temporary" ELSE "permanent"},
                 charged : IF event \in MayHaveCharged THEN BOOLEAN ELSE {FALSE},
                 ref     : {FALSE}]

BotApiReplies(retryOnTimeout) ==
  UNION {RepliesTo(e, BotApiTemporary(retryOnTimeout)) : e \in BotApiEvents}

FragmentReplies(retryOnTimeout) ==
  UNION {RepliesTo(e, FragmentTemporary(retryOnTimeout)) : e \in FragmentEvents}

MockReplies == UNION {RepliesTo(e, MockTemporary) : e \in MockEvents}

\* Replies whose errors say the truth: a failure never charged.
Definite(replies) == {r \in replies : r.verdict = "success" \/ ~r.charged}

-----------------------------------------------------------------------------
(***************************************************************************)
(* Routing: resolve_provider_name.  A provider is asked only for the order *)
(* types it can buy.                                                       *)
(***************************************************************************)

OrderTypes == {"stars", "premium", "gift"}
ProviderNames == {"mock", "fragment", "botapi"}

\* request > client.forced_provider > settings.default_provider
Chosen(requested, forced, default) ==
  IF requested # "none" THEN requested
  ELSE IF forced # "none" THEN forced ELSE default

\* Wrong variant: forgets the gifts that fragment cannot send.
RejectedStarsOnly(name, type) == <<name, type>> = <<"botapi", "stars">>

\* Wrong variant: takes botapi for a seller of gifts alone.
RejectedAllButGifts(name, type) ==
  <<name, type>> \in {<<"botapi", "stars">>, <<"botapi", "premium">>, <<"fragment", "gift">>}

\* The two pairs resolve_provider_name rejects before the order is stored.
Rejected(name, type) == <<name, type>> \in {<<"botapi", "stars">>, <<"fragment", "gift">>}

\* What GET /providers lists.
SupportedTypes ==
  [mock |-> OrderTypes, fragment |-> {"stars", "premium"}, botapi |-> {"premium", "gift"}]

\* What the adapters' buy_stars, buy_premium and send_gift implement.
CanBuy(name, type) ==
  \/ name = "mock"
  \/ name = "fragment" /\ type \in {"stars", "premium"}
  \/ name = "botapi" /\ type \in {"premium", "gift"}
=============================================================================
