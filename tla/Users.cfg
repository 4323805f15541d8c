CONSTANTS
    DefaultName = "admin"
    DefaultPassword = "admin123"
    Names = {"admin", "operator1"}
    Passwords = {"admin123", "own"}
    Sids = {s1, s2}
    MaxUsers = 2
    MaxVersion = 3
    MaxRestores = 1
    Nobody = Nobody
    Anything = Anything
    MaxChanges = 2
SPECIFICATION PagesSpec
SYMMETRY Symmetry
INVARIANTS AccountsSound SessionsSound
PROPERTIES SessionsStayDead AccountsEditedAsShown
