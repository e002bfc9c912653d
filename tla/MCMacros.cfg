CONSTANT Items <- AllItems
CONSTANT ByteValues = 4
CONSTANT ShortValues = 8
CONSTANT WideValues = 16
CONSTANT Declarations <- AllDeclarations
CONSTANT DeclaredTypes = {"Foo", "Bar"}
CONSTANT TaggedTypes = {"Foo"}
CONSTANT Words <- MCWords
CONSTANT Fragments <- MCFragments
SPECIFICATION Spec
INVARIANTS TagsDistinguish AcceptedConforms InterpolatedDecideAbi 
PROPERTIES MacrosEnd
CHECK_DEADLOCK FALSE
