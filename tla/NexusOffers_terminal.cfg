CONSTANTS
    None = None
    Requests = {r1, r2}
    Buyer = b
    Owners = {s1, s2}
    Amounts = {1, 2}
SPECIFICATION Spec
PROPERTY TerminalStaysTerminal
