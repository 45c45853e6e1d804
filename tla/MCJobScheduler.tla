--------------------------- MODULE MCJobScheduler ---------------------------
(* Instances of JobScheduler for TLC. *)
EXTENDS JobRefinement, TLC

CONSTANTS logger, webhook

\* Two processors: webhook may be retried, logger may not.
MCMaxRetries == (logger :> 0) @@ (webhook :> 2)
MCWebhookRetries == (webhook :> 2)

\* Both processors see every event, or none sees any.
AllJobs == Events \X Processors
MCAllOrNone == {AllJobs, {}}
MCAll == {AllJobs}
=============================================================================
