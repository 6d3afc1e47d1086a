SPECIFICATION Spec
CONSTANTS
    Id = {r1, r2, r3}
    MaxEntries = 2
    Absent = Absent
    Torn = Torn
    Tears = TRUE
    r1 = r1
    r2 = r2
    r3 = r3
INVARIANTS TypeOK RegistrationKept
