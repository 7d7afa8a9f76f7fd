---------------------------- MODULE MCSequential ----------------------------
(***************************************************************************)
(* TLC instance of the programs and classes that one thread runs.          *)
(* MroFiles: two MRO files, an MRE file and another one in every order,    *)
(* with objects that follow each other and an early end.  MinHeap: six     *)
(* values, which need a third array and have three levels.  CHash: two     *)
(* indexes of two buckets and three keys, two of which meet in a bucket;   *)
(* while one is scanned the other one has at most one key (FewBeside).     *)
(* AvlTree: seven nodes of three elements, so every shape with duplicates. *)
(* Sort: every array of at most five of four values.  ReverseList: up to   *)
(* eight nodes (main has six).  ReadIni: all files of up to three lines,   *)
(* each edited into any other, so that readings that fail at different     *)
(* lines come before one that succeeds; and all of four lines with two     *)
(* sections, so that a section is left and entered again ("LongIni": the   *)
(* files are Ini's, and it is the environment that differs).  prog says    *)
(* which of them runs; the others stay in one of their initial states.     *)
(***************************************************************************)
EXTENDS MroFiles, TLC

CONSTANTS Nil, END,
          HeapValues, HeapSize,
          MaxIndex, Keys, HashVals, m_Size, HashCode(_),
          Elements, MaxNodes,
          SortValues, MaxCnt, Cnt,
          Sections, Names, IniVals, MaxLines, MaxEdits, MaxOpen

VARIABLES prog,
          pContent, iSize, top, pc2, at,
          m_HashIndex, cursor, res, want, seen,
          tree, tr, np, pos4, pc4,
          arr, given, pc5, i, j, k, low, high, flag, calls,
          cnt, next, p, p1, pList, pc6,
          file, edits, pc7, asked, pos7, sSection, iInitFlag, mapData, leaked, got, image

FourFiles == "mro1" :> "MRO" @@ "mro2" :> "MRO" @@ "mre" :> "MRE" @@ "mrs" :> "neither"
SomeTexts == {<<"object", "near", "far", "end", "near">>,
              <<"other", "object", "near3", "near", "object", "near", "object">>}

Squares(key) == key * key

Heap == INSTANCE MinHeap WITH Values <- HeapValues, MaxSize <- HeapSize, pc <- pc2
Hash == INSTANCE CHash WITH Vals <- HashVals, HashFunc <- HashCode, NULL <- Nil
Avl == INSTANCE AvlTree WITH pos <- pos4, pc <- pc4
Arrays == INSTANCE Sort WITH Values <- SortValues, pc <- pc5
List == INSTANCE ReverseList WITH NULL <- Nil, pc <- pc6
Ini == INSTANCE ReadIni WITH Vals <- IniVals, pc <- pc7, pos <- pos7

ASSUME SequentialAssumption ==
    /\ Heap!MinHeapAssumption /\ Hash!CHashAssumption /\ Avl!AvlTreeAssumption
    /\ Arrays!SortAssumption /\ List!CntAssumption
    /\ Ini!ReadIniAssumption

heapVars == <<pContent, iSize, top, pc2, at>>
hashVars == <<m_HashIndex, cursor, res, want, seen>>
avlVars == <<tree, tr, np, pos4, pc4>>
sortVars == <<arr, given, pc5, i, j, k, low, high, flag, calls>>
listVars == <<cnt, next, p, p1, pList, pc6>>
iniVars == <<file, edits, pc7, asked, pos7, sSection, iInitFlag, mapData, leaked, got, image>>
AllVars == <<prog, vars, heapVars, hashVars, avlVars, sortVars, listVars, iniVars>>

\* The files of prog = "ReadIni": not of full length, and of one section.
ShortFiles == {f \in Ini!Files : /\ Len(f) < MaxLines
                                 /\ \A n \in DOMAIN f : f[n].kind = "section" => f[n].s = "a"}

\* The other indexes of prog = "CHash" while index 0 is scanned: one key at most.
FewBeside == cursor # Nil => \A ix \in DOMAIN m_HashIndex \ {0} :
                 m_HashIndex[ix] # Nil => Cardinality(Hash!KeysOf(m_HashIndex[ix])) <= 1

\* A program that does not run starts from one of its initial states only.
AllInit ==
    /\ prog \in {"MroFiles", "MinHeap", "CHash", "AvlTree", "Sort", "ReverseList", "ReadIni", "LongIni"}
    /\ IF prog = "MroFiles" THEN TRUE
       ELSE /\ text = [f \in Files |-> CHOOSE t \in Texts : TRUE]
            /\ writable = TRUE /\ hu_file = "dir" /\ saveFile = TRUE
    /\ IF prog = "Sort" THEN TRUE ELSE arr = [n \in {} |-> 0] /\ pc5 = "bubble"
    /\ IF prog = "ReverseList" THEN TRUE ELSE cnt = 1
    /\ IF prog \in {"ReadIni", "LongIni"} THEN TRUE ELSE file = <<>>
    /\ Init /\ Heap!Init /\ Hash!Init /\ Avl!Init /\ Arrays!Init /\ List!Init /\ Ini!Init
    /\ prog = "ReadIni" => file \in ShortFiles

\* What runs changes its variables and no others.
Only(name, others) == prog = name /\ UNCHANGED <<prog, others>>

AllNext ==
    \/ Next /\ Only("MroFiles", <<heapVars, hashVars, avlVars, sortVars, listVars, iniVars>>)
    \/ Heap!Next /\ Only("MinHeap", <<vars, hashVars, avlVars, sortVars, listVars, iniVars>>)
    \/ Hash!Next /\ FewBeside' /\ Only("CHash", <<vars, heapVars, avlVars, sortVars, listVars, iniVars>>)
    \/ Avl!Next /\ Only("AvlTree", <<vars, heapVars, hashVars, sortVars, listVars, iniVars>>)
    \/ Arrays!Next /\ Only("Sort", <<vars, heapVars, hashVars, avlVars, listVars, iniVars>>)
    \/ List!Next /\ Only("ReverseList", <<vars, heapVars, hashVars, avlVars, sortVars, iniVars>>)
    \/ /\ Ini!Ask \/ \E f \in ShortFiles : Ini!Edit(f)
       /\ Only("ReadIni", <<vars, heapVars, hashVars, avlVars, sortVars, listVars>>)
    \/ Ini!Ask /\ leaked' <= 1 /\ Only("LongIni", <<vars, heapVars, hashVars, avlVars, sortVars, listVars>>)

AllSpec == AllInit /\ [][AllNext]_AllVars

\* MroFiles: every row is written with its own object and counts, every table holds
\* the rows of the files read so far, and no file is passed over.
TablesHoldTheirRows == TypeOK /\ RowsAreOfTheirObject /\ TablesAccumulate /\ DealtIfRead

\* MinHeap: the heap is a bag from which the smallest value is taken.
HeapIsQueue == Heap!ImplementsQueue

\* CHash: each index is a map.
HashIsMaps == Hash!ImplementsMaps

\* What the data structures keep at every step.  MinHeap: no value is above a smaller
\* one, but where a sift has got to.  CHash: a scan gives every key once.  AvlTree:
\* the depths are heights, and the displays are sorted and of the same tree.  Sort:
\* no element is lost, what is out of order is within a range still to be sorted,
\* and the array is sorted in the end.  ReverseList: no node is lost or freed twice.
OrderIsKept ==
    /\ Heap!TypeOK /\ Heap!HeapOrder
    /\ Hash!TypeOK /\ Hash!ScanIsComplete
    /\ Avl!TypeOK /\ Avl!DepthIsHeight /\ Avl!SortedInOrder /\ Avl!DisplaysAgree
    /\ Arrays!TypeOK /\ Arrays!NothingIsLost /\ Arrays!RangesAreSeparate
    /\ Arrays!EndsSorted /\ Arrays!QuickNeedsDistinct
    /\ List!TypeOK /\ List!SplitAtP /\ List!FreesAll

\* ReadIni: what was read is what one version of the file says.
MapIsTheFile == Ini!TypeOK /\ Ini!MapIsTheFile

\* MroFiles: the batch ends.  Sort: the functions return, quick_sort if no two
\* elements are equal.  ReverseList: every node is freed.  ReadIni: a file that was
\* mended is read in the end.
SequentialEnds ==
    /\ prog = "MroFiles" /\ Fairness => BatchEnds
    /\ prog = "Sort" /\ Arrays!Fairness => Arrays!Ends
    /\ prog = "ReverseList" /\ List!Fairness => List!AllFreed
    /\ prog = "ReadIni" /\ Ini!Fairness => Ini!MendedFileIsRead
==============================================================================
