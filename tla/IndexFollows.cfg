CONSTANTS
    Files = {"a.py", "b.png", "c.py"}
    TextFiles = {"a.py", "c.py"}
    Texts = {"old", "new", "binary"}
    Binary = "binary"
    Terms = {"x", "y"}
    TermsOf <- MCTermsOf
    SymbolsOf <- MCSymbolsOf
    MaxFiles = 2
    Batch = 1
    MaxWrites = 2
SPECIFICATION Spec
INVARIANTS
    CountsMatch
    StaleIsNoticed
    QuietQueryIsFresh
