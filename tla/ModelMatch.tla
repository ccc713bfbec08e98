----------------------------- MODULE ModelMatch -----------------------------
(***************************************************************************)
(* Requirements, capabilities and limits of a Model Contract, and what it  *)
(* means that a Contract meets a requirement (_model: ModelCapabilities,   *)
(* ModelRequirements, ModelContract).  Contracts and requirements always   *)
(* carry the typed modes; the boolean ones are converted on the way in.    *)
(*                                                                         *)
(* Capabilities are [modes, combinations]: the mode of each protocol, and  *)
(* the sets of modes that can be used in one request.                      *)
(***************************************************************************)
EXTENDS Naturals, FiniteSets, SequencesExt

\* In the order in which they are looked at.
Protocols == <<"streaming", "tool_calling", "structured_output", "usage_reporting">>
ProtocolSet == Range(Protocols)

\* StreamingMode, ToolCallingMode, StructuredOutputMode, UsageReportingMode
Modes == [streaming |-> {"NONE", "DELTA"},
          tool_calling |-> {"NONE", "NATIVE"},
          structured_output |-> {"NONE", "JSON_OBJECT", "JSON_SCHEMA_STRICT"},
          usage_reporting |-> {"NONE", "PROVIDER_REPORTED"}]

NoModes == [p \in ProtocolSet |-> "NONE"]
NoRequirements == [modes |-> NoModes, minWindow |-> 1, minOutput |-> 1]

Active(modes) == {p \in ProtocolSet : modes[p] # "NONE"}

\* _capability_mode_supports: a strict schema serves a plain JSON object.
ModeSupports(available, required) ==
    \/ required = "NONE" \/ available = required
    \/ available = "JSON_SCHEMA_STRICT" /\ required = "JSON_OBJECT"

\* ModelCapabilityCombination.supports
CombinationSupports(modes, required) == \A p \in ProtocolSet : ModeSupports(modes[p], required[p])

\* _validate_supported_combinations
WellFormed(caps) ==
    /\ Cardinality(Active(caps.modes)) > 1 => caps.combinations # {}
    /\ \A c \in caps.combinations : CombinationSupports(caps.modes, c)
    /\ caps.combinations # {} =>
        \A p \in Active(caps.modes) : \E c \in caps.combinations : c[p] = caps.modes[p]

\* Fault: every mode by itself is enough.
SupportsCombination_Each(caps, required) == TRUE

\* _supports_combination: more than one mode must be usable together.
SupportsCombination(caps, required) ==
    \/ Cardinality(Active(required)) <= 1
    \/ \E c \in caps.combinations : CombinationSupports(c, required)

\* supports
Supports(caps, required) ==
    CombinationSupports(caps.modes, required) /\ SupportsCombination(caps, required)

\* merged_requirements: the stronger of two modes.
MergedModes(left, right) ==
    [p \in ProtocolSet |-> IF ModeSupports(left[p], right[p]) THEN left[p] ELSE right[p]]

\* effective_for: usage the Contract guarantees must be reported by the provider.
EffectiveFor(required, contract) ==
    IF contract.usageRequired
    THEN MergedModes(required, [NoModes EXCEPT !["usage_reporting"] = "PROVIDER_REPORTED"])
    ELSE required

\* The first protocol that does not serve the requirement, or that all do.
FirstUnsupported(caps, required) ==
    LET missing == {i \in DOMAIN Protocols :
                        ~ModeSupports(caps.modes[Protocols[i]], required[Protocols[i]])}
    IN  IF missing = {} THEN "SATISFIED"
        ELSE Protocols[CHOOSE i \in missing : \A j \in missing : i <= j]

\* match
Match(requirements, contract) ==
    LET required == EffectiveFor(requirements.modes, contract)
        first == FirstUnsupported(contract.capabilities, required)
    IN  CASE first # "SATISFIED" -> first
          [] first = "SATISFIED" /\ ~Supports(contract.capabilities, required) -> "combination"
          [] OTHER -> IF contract.window < requirements.minWindow THEN "context_window"
                      ELSE IF contract.output < requirements.minOutput THEN "max_output"
                      ELSE "SATISFIED"

\* The reference for match: all that is required, and the usage report that the
\* Contract guarantees, can be had in one request.
Serves(contract, requirements) ==
    LET wanted == [requirements.modes EXCEPT !["usage_reporting"] =
                        IF contract.usageRequired THEN "PROVIDER_REPORTED" ELSE @]
        alone == {[NoModes EXCEPT ![p] = contract.capabilities.modes[p]] : p \in ProtocolSet}
    IN  /\ \E usable \in contract.capabilities.combinations \cup alone :
            CombinationSupports(usable, wanted)
        /\ contract.window >= requirements.minWindow /\ contract.output >= requirements.minOutput
=============================================================================
