SPECIFICATION Spec
CONSTANTS
    NULL = NULL
    Drivers = {d1}
    Guarantors = {g1}
    Companies = {p1}
    Required = {license}
    Calls = {c1}
INVARIANTS ClearedHasNoSponsor
CHECK_DEADLOCK FALSE
