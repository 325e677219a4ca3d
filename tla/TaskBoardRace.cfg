SPECIFICATION Spec
CONSTANTS
    Tasks = {t1}
    Clients = {c1, c2}
    Agents = {a1}
    None = None
    Exclusive = {}
PROPERTY LegalTransitions
