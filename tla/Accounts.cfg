\* Two names; four passwords, one too long for bcrypt and one of white space;
\* two requests, one failure.
SPECIFICATION OSpec
CONSTANTS
    alice = alice
    bob = bob
    w1 = w1
    w2 = w2
    w3 = w3
    long = long
    p1 = p1
    p2 = p2
    p3 = p3
    Blank = Blank
    Names = {alice, bob}
    Passwords = {w1, w2, w3, long}
    TooLong = {long}
    Spaces = {w3}
    Requests = {p1, p2}
    MaxFaults = 1
SYMMETRY AccountSymmetry
INVARIANTS
    TypeOK
    OneAccountPerName
    AnswersAreDue
PROPERTY
    PasswordsChangeByProof
