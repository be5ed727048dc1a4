CONSTANTS
    Spans = {1, 2, 3, 4, 5, 6}
    Buckets = {"DIRTY", "RETAINED"}
    Age <- MCAge
    Null = Null
SPECIFICATION Spec
INVARIANTS
    HeapsExact
    RegistryExact
PROPERTIES
    ImplementsContainers
