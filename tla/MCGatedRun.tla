----------------------------- MODULE MCGatedRun -----------------------------
EXTENDS GatedRun

Stage(id, scope) == [id |-> id, scope |-> scope, transform |-> "PROVIDE"]

Unlimited == [p \in Purposes \cup {"RUN"} |-> NoLimit]

\* A compressed plan with a Stage at every lifecycle point, a legacy provider with a
\* repairable contract, and the remaining forms of plan and contract, some
\* with a budget that retries, replays or repairs use up.
MCSnapshots ==
    {[provider |-> TRUE,
      plan |-> <<Stage("in", "RUN_INPUT"), Stage("out", "TOOL_OUTCOME"), Stage("now", "MODEL_STEP")>>,
      sources |-> {"open"}, output |-> "none", effect |-> "NON_IDEMPOTENT",
      budget |-> Unlimited],
     [provider |-> TRUE, plan |-> <<>>, sources |-> {}, output |-> "repair", effect |-> "IDEMPOTENT",
      budget |-> Unlimited],
     [provider |-> FALSE, plan |-> <<>>, sources |-> {}, output |-> "strict", effect |-> "NON_IDEMPOTENT",
      budget |-> [Unlimited EXCEPT !["RUN"] = 3]],
     [provider |-> TRUE, plan |-> <<Stage("in", "RUN_INPUT"), Stage("more", "RUN_INPUT")>>,
      sources |-> {"open"}, output |-> "plain", effect |-> "IDEMPOTENT",
      budget |-> [Unlimited EXCEPT !["CONTEXT_COMPRESSION"] = 1]],
     [provider |-> TRUE,
      plan |-> <<Stage("in", "RUN_INPUT"),
                 [id |-> "pick", scope |-> "RUN_INPUT", transform |-> "SELECT"]>>,
      sources |-> {"open"}, output |-> "plain", effect |-> "IDEMPOTENT",
      budget |-> Unlimited],
     [provider |-> FALSE, plan |-> <<>>, sources |-> {}, output |-> "repair", effect |-> "IDEMPOTENT",
      budget |-> [Unlimited EXCEPT !["OUTPUT_REPAIR"] = 1]]}
=============================================================================
