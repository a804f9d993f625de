\* The window between the acceptance of a prompt and its fresh token.
CONSTANTS
    Sessions = {s1}
    MaxPrompts = 2
    MaxCalls <- Calls
SPECIFICATION Spec
INVARIANTS
    CancelHitsInFlightPrompt
