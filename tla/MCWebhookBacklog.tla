-------------------------- MODULE MCWebhookBacklog --------------------------
(***************************************************************************)
(* Values for model checking WebhookBacklog.                               *)
(***************************************************************************)
EXTENDS WebhookBacklog

CONSTANTS cron, job

\* The cron selects more than the end of a job does.
MCLimit == [p \in {cron, job} |-> IF p = cron THEN 2 ELSE 1]
=============================================================================
