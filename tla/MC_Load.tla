------------------------------- MODULE MC_Load -------------------------------
EXTENDS Load

\* Each runbook includes at most one other runbook.
MC_IncludeSets == {{}, {1}, {2}, {3}}

\* RUNN_RUN matching everything, or one runbook out.
MC_MatchSets == {{1, 2, 3}, {1, 3}}

MC_ShardConfigs == {<<0, 0>>, <<2, 0>>, <<2, 1>>}

=============================================================================
