------------------------- MODULE MC_RunbookBuilder -------------------------
EXTENDS RunbookBuilder

\* Two http hosts and an https one: three runners of the same prefix.
MC_DSNs == {[scheme |-> "http", host |-> "a"], [scheme |-> "http", host |-> "b"],
            [scheme |-> "https", host |-> "a"]}

=============================================================================
