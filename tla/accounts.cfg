SPECIFICATION Spec
CONSTANTS
    e1 = e1
    User = {u1, u2}
    Name = {n1, n2}
    Email = {e1, e2}
    Invitation = {i1}
    Invitee <- InviteeOf
    VerificationOn = TRUE
    Session = {x1, x2}
    MaxToken = 2
SYMMETRY Symmetry
CHECK_DEADLOCK FALSE
INVARIANTS
    AccountsInvariant
    LiveAccountsDiffer
    AcceptedMeansUsedOnce
    VerifiedAddressIsProven
