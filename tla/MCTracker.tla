----------------------------- MODULE MCTracker -----------------------------
(* Three alerts of one symbol.  The crontab entry alone meets one WATCH    *)
(* alert after two others, or two of them, which fill its query; beside a  *)
(* standalone loop it meets two, and so does the loop alone.               *)
EXTENDS OutcomeTracker

CONSTANTS cron, loop, symbolA

MCSymbolOf == [i \in Row |-> symbolA]
MCDeployments ==
    {<<{cron}, {3}>>, <<{cron}, {2, 3}>>, <<{loop}, {2, 3}>>, <<{cron, loop}, {2, 3}>>}
=============================================================================
