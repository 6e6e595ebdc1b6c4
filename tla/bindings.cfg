SPECIFICATION Spec
CONSTANTS
    User = {u1, u2}
    Telegram = {t1, t2}
    Google = {g1, g2}
    Row = {b1, b2, b3}
    Session = {x1, x2}
SYMMETRY Symmetry
CHECK_DEADLOCK FALSE
INVARIANTS
    BindingsInvariant
    OneToOne
    PreferencesFollowBinding
PROPERTIES
    LoginChangesNoBinding
