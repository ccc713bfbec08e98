------------------------------ MODULE RunStatus ------------------------------
(***************************************************************************)
(* The vocabulary of an Agent Run: the seven statuses and the single table *)
(* of legal transitions of m_agent/_status.py, the WAITING reasons and the *)
(* resolution actions m_agent/_resolution.py allows for each of them.      *)
(* There is no state here; every other module takes the table from here.   *)
(***************************************************************************)

\* RunStatus: the values a persisted Run may have.
RunStatuses ==
    {"CREATED", "RUNNING", "WAITING", "SUCCEEDED", "REJECTED", "FAILED", "CANCELLED"}

\* TERMINAL_STATUSES: no further command advances such a Run.
TERMINAL_STATUSES == {"SUCCEEDED", "REJECTED", "FAILED", "CANCELLED"}

\* _ALLOWED_TRANSITIONS, the one table validate_transition consults.
AllowedTransitions ==
    [s \in RunStatuses |->
        CASE s = "CREATED" -> {"RUNNING", "WAITING", "REJECTED", "FAILED", "CANCELLED"}
          [] s = "RUNNING" -> {"SUCCEEDED", "REJECTED", "FAILED", "WAITING", "CANCELLED"}
          [] s = "WAITING" -> {"RUNNING", "FAILED", "CANCELLED"}
          [] OTHER         -> {}]

\* validate_transition raises unless this holds.
LegalTransition(from, to) == to \in AllowedTransitions[from]

------------------------------------------------------------------------------
NoReason == "none"

\* The machine-readable WAITING reasons.  The policy reason carries a suffix in
\* the code; only its prefix is ever tested.
WaitingReasons ==
    {"UNCERTAIN_NON_IDEMPOTENT", "DEFINITION_UNAVAILABLE", "POLICY_RESOLUTION_REQUIRED"}

ResolutionActions == {"RETRY_STEP", "CONFIRM_STEP", "FAIL_RUN", "CANCEL_RUN", "CONTINUE_RUN"}

\* allowed_resolutions: what an application may ask of a WAITING Run.
AllowedResolutions(reason) ==
    CASE reason = "UNCERTAIN_NON_IDEMPOTENT" ->
            {"RETRY_STEP", "CONFIRM_STEP", "FAIL_RUN", "CANCEL_RUN"}
      [] reason = "DEFINITION_UNAVAILABLE" -> {"FAIL_RUN", "CANCEL_RUN"}
      [] reason = "POLICY_RESOLUTION_REQUIRED" -> {"CONTINUE_RUN", "FAIL_RUN", "CANCEL_RUN"}
      [] OTHER -> {}
==============================================================================
