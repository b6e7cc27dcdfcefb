SPECIFICATION PermSpec
CONSTANT Sizes = {0, 1, 2, 3, 4, 5}
INVARIANTS InverseInStep OneChoiceEach
