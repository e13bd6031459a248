SPECIFICATION Spec
CONSTANTS
    GPOs = {A, B, C}
    MaxParts = 2
INVARIANTS
    ListMatchesOptions
    RoundTrip
PROPERTIES
    EditsAttribute
