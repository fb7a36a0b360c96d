SPECIFICATION Spec
CONSTANTS
    main = main
    inc1 = inc1
    inc2 = inc2
    plain = plain
    one = one
    other = other
    Files <- MCFiles
    Main = main
    Texts <- MCTexts
    Includes <- MCIncludes
    Dir <- OneDirectory
    Missing = Missing
    None = None
    MaxSaves = 3
CHECK_DEADLOCK FALSE
INVARIANTS QuietServesTheDisk
PROPERTIES Settles
