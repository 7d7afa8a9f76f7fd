SPECIFICATION AllSpec
CONSTANTS Kind <- FourFiles Texts <- SomeTexts NoFile = "none"
          Nil = Nil END = END HeapValues = {1, 2, 3} HeapSize = 6
          MaxIndex = 1 Keys = {1, 2, 3} HashVals = {Val1, Val2} m_Size = 2 HashCode <- Squares
          Elements = {1, 2, 3} MaxNodes = 7
          SortValues = {1, 2, 3, 4} MaxCnt = 5 Cnt = {1, 2, 3, 4, 5, 6, 7, 8}
          Sections = {"a", "b"} Names = {"n"} IniVals = {"1", "2"} MaxLines = 4 MaxEdits = 1 MaxOpen = 3
CHECK_DEADLOCK FALSE
INVARIANTS TablesHoldTheirRows OrderIsKept MapIsTheFile
PROPERTIES HeapIsQueue HashIsMaps SequentialEnds
