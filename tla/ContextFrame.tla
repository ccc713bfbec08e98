---------------------------- MODULE ContextFrame ----------------------------
(***************************************************************************)
(* What of its context one model request carries (_context_plan.py,        *)
(* _compression.py): the Stages of a frozen Context Plan, the Frame        *)
(* aggregated from their Checkpoints, and semantic compression.            *)
(*                                                                         *)
(* A context item is [id, source, val]; val is a sequence, so that the     *)
(* value of a derived item tells what it was derived from.  A Stage result *)
(* is [scope, boundary, items]: how often its lifecycle point had been     *)
(* reached, and what the provider returned there; results are a function   *)
(* on the numbers of their Steps.                                          *)
(***************************************************************************)
EXTENDS Integers, Sequences, SequencesExt

Scopes == {"RUN_INPUT", "TOOL_OUTCOME", "MODEL_STEP"}

\* ContextPlan.stages_for_scope, as positions in the plan: lower ones come first.
StagesForScope(plan, scope) == {n \in DOMAIN plan : plan[n].scope = scope}

\* legacy_provider_stage: what a Definition with a provider and no plan has.
LegacyProviderStage ==
    [id |-> "legacy", scope |-> "RUN_INPUT", transform |-> "PROVIDE"]

\* The results a request carries: the base items, the increments of every Tool
\* boundary so far and the working items of this very model boundary.
FrameResults(results, toolBoundary, modelBoundary) ==
    LET belongs(r) == CASE r.scope = "RUN_INPUT" -> TRUE
                        [] r.scope = "TOOL_OUTCOME" -> r.boundary <= toolBoundary
                        [] r.scope = "MODEL_STEP" -> r.boundary = modelBoundary
    IN [i \in {i \in DOMAIN results : belongs(results[i])} |-> results[i].items]

\* The items of all results, in the order their Checkpoints were made.
InOrder(f) ==
    LET made == SetToSortSeq(DOMAIN f, <) IN FlattenSeq([n \in DOMAIN made |-> f[made[n]]])

\* aggregate_frame_items.
AggregateFrameItems(results, toolBoundary, modelBoundary) ==
    InOrder(FrameResults(results, toolBoundary, modelBoundary))

\* CompressionContract.allows_item.
AllowedItems(items, allowedSources) ==
    SelectSeq(items, LAMBDA x : x.source \in allowedSources)

\* ... over the base items.
CompressibleItems(results, allowedSources) ==
    AllowedItems(AggregateFrameItems(results, 0, 0), allowedSources)

\* parse_compression_output, for a model that derives one item from all of its
\* input.
CompressionResult(items) ==
    [consumed |-> {items[i].id : i \in DOMAIN items},
     item |-> [id |-> "derived", source |-> "compression",
               val |-> FlattenSeq([i \in DOMAIN items |-> items[i].val])]]

\* apply_compression: consumed is a set of item ids, so every item of the Frame
\* with such an id gives way, whatever Stage it came from.
ApplyCompression(items, result) ==
    Append(SelectSeq(items, LAMBDA x : x.id \notin result.consumed), result.item)

\* check_frame_budget, with every item of the same size.
WithinBudget(items, window) == Len(items) <= window
=============================================================================
