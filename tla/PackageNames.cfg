SPECIFICATION Spec
CONSTANTS
    hello = hello
    pro = pro
    None = None
    Ids = {hello, pro}
    Versions = {v1}
    Clients = {p1}
    Prefixes <- Related
INVARIANTS
    Recoverable
