-------------------------- MODULE SequentialProofs --------------------------
(***************************************************************************)
(* Proofs about the programs and classes of MCSequential: ReadIni,         *)
(* MinHeap, CHash, MroFiles, ReverseList, Sort and AvlTree, in this order. *)
(* Each part begins with its inductive invariant.  OrderKept, at the end,  *)
(* puts together what they say of order and elements.                      *)
(***************************************************************************)
EXTENDS MCSequential, SequenceTheorems, FiniteSetTheorems, WellFoundedInduction, TLAPS

----------------------------------------------------------------------------
(***************************************************************************)
(* ReadIni, for every set of files.  MapIsTheFile says nothing while the   *)
(* file is read; ParseInv does: the section and the map are what the lines *)
(* above pos say.                                                          *)
(***************************************************************************)

\* What the map answers.
Says(data, key) == IF key \in DOMAIN data THEN data[key] ELSE Ini!Blank

\* What the lines above n say of a key, as ValueIn says it of the whole file.
HitsAbove(f, n, key) == {q \in 1 .. n - 1 : /\ f[q].kind = "pair" /\ f[q].n = key.name
                                            /\ Ini!SectionAt(f, q) = key.section}
ValueAbove(f, n, key) ==
    IF HitsAbove(f, n, key) = {} THEN Ini!Blank ELSE f[Ini!Max(HitsAbove(f, n, key))].v

IniCounts == /\ edits \in 0 .. MaxEdits /\ leaked \in 0 .. MaxOpen
             /\ pos7 \in 0 .. MaxLines + 1 /\ iInitFlag \in {0, 1}
IniPlaces == /\ pc7 \in {"idle", "parse"} /\ sSection \in Sections \cup {Ini!Blank}
             /\ asked \in Ini!TSectionName \cup {Ini!Nobody}
             /\ file \in Ini!Files
IniTypes == IniCounts /\ IniPlaces

DataType(data) == /\ DOMAIN data \subseteq Ini!TSectionName
                  /\ \A key \in DOMAIN data : data[key] \in IniVals \cup {Ini!Blank}

\* A reading that has got to pos.
ParseInv == pc7 = "parse" =>
    /\ iInitFlag = 0 /\ pos7 \in 1 .. Len(file) + 1 /\ asked \in Ini!TSectionName
    /\ sSection = Ini!SectionAt(file, pos7)
    /\ \A q \in 1 .. pos7 - 1 : file[q].kind \in {"section", "pair"}
    /\ \A key \in Ini!TSectionName : Says(mapData, key) = ValueAbove(file, pos7, key)

IniInv == IniTypes /\ DataType(mapData) /\ ParseInv /\ Ini!MapIsTheFile

\* What is assumed of the constants.
LEMMA IniConstants == MaxLines \in Nat /\ MaxEdits \in Nat /\ MaxOpen \in Nat
  BY SequentialAssumption DEF Ini!ReadIniAssumption

\* A number that is in a set and below none of the others is its Max.
LEMMA MaxIs ==
  ASSUME NEW S \in SUBSET Int, NEW x \in S, \A y \in S : y <= x
  PROVE  Ini!Max(S) = x
<1>1. \A z \in S : (\A y \in S : z >= y) => z = x
  OBVIOUS
<1>2. \A y \in S : x >= y
  OBVIOUS
<1>. QED BY <1>1, <1>2 DEF Ini!Max

\* A file is a sequence of lines, no longer than MaxLines.
LEMMA FileFacts ==
  ASSUME NEW f \in Ini!Files
  PROVE  /\ Len(f) \in 0 .. MaxLines /\ DOMAIN f = 1 .. Len(f)
         /\ \A q \in 1 .. Len(f) : f[q] \in Ini!Lines
<1>1. PICK m \in 0 .. MaxLines : f \in [1 .. m -> Ini!Lines]
  BY DEF Ini!Files, Ini!SeqOf
<1>2. m \in Nat
  BY IniConstants
<1>3. Len(f) = m /\ DOMAIN f = 1 .. m
  BY <1>1, <1>2
<1>. QED BY <1>1, <1>2, <1>3

\* The file that is there now, too.
LEMMA FileLength == IniInv => /\ file \in Ini!Files /\ Len(file) \in Nat /\ Len(file) <= MaxLines
                              /\ DOMAIN file = 1 .. Len(file)
<1>. SUFFICES ASSUME IniInv PROVE /\ file \in Ini!Files /\ Len(file) \in Nat /\ Len(file) <= MaxLines
                                 /\ DOMAIN file = 1 .. Len(file)
  OBVIOUS
<1>1. file \in Ini!Files
  BY DEF IniInv, IniTypes, IniPlaces
<1>2. Len(file) \in 0 .. MaxLines /\ DOMAIN file = 1 .. Len(file)
  BY <1>1, FileFacts
<1>. QED BY <1>1, <1>2, IniConstants

\* One is no zero.
LEMMA One == 1 \in Nat \ {0}
  OBVIOUS

\* The section at the first line, and after a line.
LEMMA SectionAtSteps ==
  ASSUME NEW f, NEW n \in Nat \ {0}
  PROVE  /\ Ini!SectionAt(f, 1) = Ini!Blank
         /\ f[n].kind = "section" => Ini!SectionAt(f, n + 1) = f[n].s
         /\ f[n].kind # "section" => Ini!SectionAt(f, n + 1) = Ini!SectionAt(f, n)
<1>. DEFINE Above(m) == {q \in 1 .. m - 1 : f[q].kind = "section"}
<1>1. Above(1) = {}
  OBVIOUS
<1>2. ASSUME f[n].kind = "section" PROVE Ini!SectionAt(f, n + 1) = f[n].s
  <2>1. n \in Above(n + 1) /\ \A y \in Above(n + 1) : y <= n
    BY <1>2
  <2>2. Ini!Max(Above(n + 1)) = n
    BY <2>1, MaxIs, Above(n + 1) \in SUBSET Int
  <2>. QED BY <2>1, <2>2 DEF Ini!SectionAt
<1>3. ASSUME f[n].kind # "section" PROVE Above(n + 1) = Above(n)
  BY <1>3
<1>. QED BY <1>1, <1>2, <1>3 DEF Ini!SectionAt

\* What the lines above the first one say, and those above the next one.
LEMMA ValueAboveSteps ==
  ASSUME NEW f, NEW n \in Nat \ {0}, NEW key
  PROVE  /\ ValueAbove(f, 1, key) = Ini!Blank
         /\ ValueAbove(f, n + 1, key) =
               IF f[n].kind = "pair" /\ f[n].n = key.name /\ Ini!SectionAt(f, n) = key.section
               THEN f[n].v ELSE ValueAbove(f, n, key)
<1>. DEFINE Hit == f[n].kind = "pair" /\ f[n].n = key.name /\ Ini!SectionAt(f, n) = key.section
<1>1. HitsAbove(f, 1, key) = {}
  BY DEF HitsAbove
<1>2. ASSUME Hit PROVE ValueAbove(f, n + 1, key) = f[n].v
  <2>1. n \in HitsAbove(f, n + 1, key) /\ \A y \in HitsAbove(f, n + 1, key) : y <= n
    BY <1>2 DEF HitsAbove
  <2>2. HitsAbove(f, n + 1, key) \in SUBSET Int
    BY DEF HitsAbove
  <2>3. Ini!Max(HitsAbove(f, n + 1, key)) = n
    BY <2>1, <2>2, MaxIs
  <2>. QED BY <2>1, <2>3 DEF ValueAbove
<1>3. ASSUME ~ Hit PROVE HitsAbove(f, n + 1, key) = HitsAbove(f, n, key)
  BY <1>3 DEF HitsAbove
<1>. QED BY <1>1, <1>2, <1>3 DEF ValueAbove

\* The lines above the end are the file.
LEMMA ValueAboveEnd ==
  ASSUME NEW f \in Ini!Files, NEW key
  PROVE  ValueAbove(f, Len(f) + 1, key) = Ini!ValueIn(f, key)
<1>1. DOMAIN f = 1 .. Len(f) /\ Len(f) \in Nat
  BY FileFacts, IniConstants
<1>2. (Len(f) + 1) - 1 = Len(f)
  BY <1>1
<1>3. HitsAbove(f, Len(f) + 1, key) =
         {q \in DOMAIN f : /\ f[q].kind = "pair" /\ f[q].n = key.name
                           /\ Ini!SectionAt(f, q) = key.section}
  BY <1>1, <1>2 DEF HitsAbove
<1>. QED BY <1>3 DEF ValueAbove, Ini!ValueIn

\* Putting a pair in the map changes the answer for its key only, and putting in
\* what the map answers changes no answer.
LEMMA SaysPut ==
  ASSUME NEW data, NEW key, NEW val
  PROVE  /\ Says(Ini!PutData(data, key, val), key) = val
         /\ \A x : x # key => Says(Ini!PutData(data, key, val), x) = Says(data, x)
  BY DEF Says, Ini!PutData

\* The map keeps its type when a value is put in.
LEMMA PutType ==
  ASSUME NEW data, DataType(data), NEW key \in Ini!TSectionName, NEW val \in IniVals \cup {Ini!Blank}
  PROVE  DataType(Ini!PutData(data, key, val))
  BY DEF DataType, Ini!PutData

\* An answer changes no answer.
LEMMA AnswerKeeps ==
  ASSUME DataType(mapData), NEW key \in Ini!TSectionName, Ini!Answer(mapData, key)
  PROVE  DataType(mapData') /\ \A x : Says(mapData', x) = Says(mapData, x)
<1>. DEFINE val == IF key \in DOMAIN mapData THEN mapData[key] ELSE Ini!Blank
<1>1. mapData' = Ini!PutData(mapData, key, val)
  BY DEF Ini!Answer
<1>2. val \in IniVals \cup {Ini!Blank} /\ val = Says(mapData, key)
  BY DEF DataType, Says
<1>3. DataType(Ini!PutData(mapData, key, val))
  BY <1>2, PutType
<1>. HIDE DEF val
<1>4. \A x : Says(Ini!PutData(mapData, key, val), x) = Says(mapData, x)
  <2>. SUFFICES ASSUME NEW x PROVE Says(Ini!PutData(mapData, key, val), x) = Says(mapData, x)
    OBVIOUS
  <2>1. CASE x = key
    BY <1>2, <2>1, SaysPut
  <2>2. CASE x # key
    BY <2>2, SaysPut
  <2>. QED BY <2>1, <2>2
<1>. QED BY <1>1, <1>3, <1>4

\* MapIsTheFile, said of the answers.
LEMMA MapIsFile ==
  Ini!MapIsTheFile <=>
    (iInitFlag = 1 => /\ Ini!WellFormed(image)
                      /\ \A key \in Ini!TSectionName : Says(mapData, key) = Ini!ValueIn(image, key))
  BY DEF Ini!MapIsTheFile, Says

\* The invariant holds at the start.
LEMMA IniInit == Ini!Init => IniInv
<1>. SUFFICES ASSUME Ini!Init PROVE IniInv
  OBVIOUS
<1>1. IniCounts
  BY IniConstants DEF Ini!Init, IniCounts
<1>4. IniPlaces
  BY DEF Ini!Init, IniPlaces
<1>2. DataType(mapData)
  BY DEF Ini!Init, Ini!NoData, DataType
<1>3. ParseInv /\ Ini!MapIsTheFile
  <2>1. pc7 # "parse" /\ iInitFlag # 1
    BY DEF Ini!Init
  <2>. QED BY <2>1 DEF ParseInv, Ini!MapIsTheFile
<1>. QED BY <1>1, <1>2, <1>3, <1>4 DEF IniInv, IniTypes

\* A question that is answered, an edit and a reading that cannot start.
LEMMA IdleKeeps ==
  ASSUME IniInv,
         \/ Ini!OpenFails
         \/ \E f \in Ini!Files : Ini!Edit(f)
         \/ \E key \in Ini!TSectionName : Ini!ReadValue(key)
  PROVE  IniInv'
<1>1. CASE Ini!OpenFails
  <2>1. IniTypes' /\ DataType(mapData')
    BY <1>1 DEF Ini!OpenFails, Ini!NoData, IniInv, IniTypes, IniCounts, IniPlaces, DataType
  <2>2. pc7' # "parse" /\ iInitFlag' # 1
    BY <1>1 DEF Ini!OpenFails
  <2>3. ParseInv' /\ Ini!MapIsTheFile'
    BY <2>2 DEF ParseInv, Ini!MapIsTheFile
  <2>. QED BY <2>1, <2>3 DEF IniInv
<1>2. ASSUME NEW f \in Ini!Files, Ini!Edit(f) PROVE IniInv'
  <2>1. IniCounts'
    BY <1>2, IniConstants DEF Ini!Edit, IniInv, IniTypes, IniCounts
  <2>3. IniPlaces'
    BY <1>2 DEF Ini!Edit, IniInv, IniTypes, IniPlaces
  <2>2. DataType(mapData)' /\ ParseInv' /\ Ini!MapIsTheFile'
    BY <1>2 DEF Ini!Edit, IniInv, DataType, ParseInv, Ini!MapIsTheFile
  <2>. QED BY <2>1, <2>2, <2>3 DEF IniInv, IniTypes
<1>3. ASSUME NEW key \in Ini!TSectionName, Ini!ReadValue(key) PROVE IniInv'
  <2>1. DataType(mapData') /\ \A x : Says(mapData', x) = Says(mapData, x)
    BY <1>3, AnswerKeeps DEF Ini!ReadValue, IniInv
  <2>2. IniTypes' /\ ParseInv'
    BY <1>3 DEF Ini!ReadValue, IniInv, IniTypes, IniCounts, IniPlaces, ParseInv
  <2>3. iInitFlag' = iInitFlag /\ image' = image
    BY <1>3 DEF Ini!ReadValue
  <2>4. Ini!MapIsTheFile'
    <3>1. iInitFlag' = 1 => /\ Ini!WellFormed(image')
                            /\ \A x \in Ini!TSectionName : Says(mapData', x) = Ini!ValueIn(image', x)
      BY <2>1, <2>3, MapIsFile DEF IniInv
    <3>. QED BY <3>1 DEF Ini!MapIsTheFile, Says
  <2>. QED BY <2>1, <2>2, <2>4 DEF IniInv
<1>. QED BY <1>1, <1>2, <1>3

\* A reading starts with an empty map.
LEMMA OpenKeeps ==
  ASSUME IniInv, NEW key \in Ini!TSectionName, Ini!Open(key)
  PROVE  IniInv'
<1>1. /\ pc7' = "parse" /\ asked' = key /\ pos7' = 1 /\ sSection' = Ini!Blank /\ mapData' = Ini!NoData
      /\ iInitFlag' = 0 /\ leaked' = leaked + 1 /\ leaked < MaxOpen /\ file' = file /\ edits' = edits
  BY DEF Ini!Open, IniInv
<1>2. IniTypes'
  <2>1. IniCounts'
    BY <1>1, IniConstants DEF IniInv, IniTypes, IniCounts
  <2>2. IniPlaces'
    BY <1>1 DEF IniInv, IniTypes, IniPlaces
  <2>. QED BY <2>1, <2>2 DEF IniTypes
<1>3. DataType(mapData')
  BY <1>1 DEF Ini!NoData, DataType
<1>4. ParseInv'
  <2>1. Len(file) \in Nat /\ 1 \in 1 .. Len(file) + 1
    BY FileLength
  <2>2. Ini!SectionAt(file, 1) = Ini!Blank
    BY SectionAtSteps, One, Zenon
  <2>3. ASSUME NEW x PROVE Says(Ini!NoData, x) = ValueAbove(file, 1, x)
    <3>1. ValueAbove(file, 1, x) = Ini!Blank
      BY ValueAboveSteps, One, Zenon
    <3>2. x \notin DOMAIN Ini!NoData
      BY DEF Ini!NoData
    <3>. QED BY <3>1, <3>2 DEF Says
  <2>4. 1 .. 1 - 1 = {}
    OBVIOUS
  <2>5. \A q \in 1 .. 1 - 1 : file[q].kind \in {"section", "pair"}
    BY <2>4, Zenon
  <2>. QED BY <1>1, <2>1, <2>2, <2>3, <2>5, Zenon DEF ParseInv
<1>5. Ini!MapIsTheFile'
  <2>1. iInitFlag' # 1
    BY <1>1
  <2>. QED BY <2>1, Zenon DEF Ini!MapIsTheFile
<1>. QED BY <1>2, <1>3, <1>4, <1>5 DEF IniInv

\* A line is read: a section or a pair.
LEMMA ReadLineKeeps ==
  ASSUME IniInv, Ini!ReadLine
  PROVE  IniInv'
<1>. DEFINE l == file[pos7]
            key0 == [section |-> sSection, name |-> l.n]
<1>1. /\ pc7 = "parse" /\ pos7 <= Len(file) /\ pos7' = pos7 + 1 /\ pc7' = pc7 /\ file' = file
      /\ edits' = edits /\ asked' = asked /\ iInitFlag' = iInitFlag /\ leaked' = leaked /\ image' = image
  BY DEF Ini!ReadLine
<1>2. \/ l.kind = "section" /\ sSection' = l.s /\ mapData' = mapData
      \/ l.kind = "pair" /\ mapData' = Ini!PutData(mapData, key0, l.v) /\ sSection' = sSection
  BY DEF Ini!ReadLine, Ini!Line
<1>3. /\ pos7 \in Nat \ {0} /\ Len(file) \in 0 .. MaxLines /\ iInitFlag = 0 /\ pos7 \in 1 .. Len(file)
      /\ file \in Ini!Files /\ l \in Ini!Lines /\ Len(file) \in Nat
  <2>1. pos7 \in 1 .. Len(file) + 1 /\ iInitFlag = 0
    BY <1>1 DEF IniInv, ParseInv
  <2>2. file \in Ini!Files /\ Len(file) \in 0 .. MaxLines /\ Len(file) \in Nat
    BY FileLength, IniConstants
  <2>3. pos7 \in 1 .. Len(file) /\ pos7 \in Nat \ {0}
    BY <1>1, <2>1, <2>2
  <2>. QED BY <2>1, <2>2, <2>3, FileFacts
<1>4. /\ l.kind = "section" => l.s \in Sections
      /\ l.kind = "pair" => l.n \in Names /\ l.v \in IniVals
  BY <1>3 DEF Ini!Lines
<1>5. IniTypes'
  <2>1. pos7' \in 0 .. MaxLines + 1
    BY <1>1, <1>3, IniConstants
  <2>2. sSection' \in Sections \cup {Ini!Blank}
    BY <1>2, <1>4 DEF IniInv, IniTypes, IniPlaces
  <2>. QED BY <2>1, <2>2, <1>1 DEF IniInv, IniTypes, IniCounts, IniPlaces
<1>6. DataType(mapData')
  <2>1. CASE l.kind = "section"
    BY <1>2, <2>1 DEF IniInv
  <2>2. CASE l.kind = "pair"
    <3>1. key0 \in Ini!TSectionName /\ l.v \in IniVals \cup {Ini!Blank}
      BY <1>4, <2>2 DEF IniInv, IniTypes, IniPlaces, Ini!TSectionName
    <3>. HIDE DEF key0
    <3>. QED BY <1>2, <2>2, <3>1, PutType DEF IniInv
  <2>. QED BY <1>2, <2>1, <2>2
<1>7. sSection' = Ini!SectionAt(file, pos7 + 1)
  BY <1>1, <1>2, <1>3, SectionAtSteps DEF IniInv, ParseInv
<1>8. \A q \in 1 .. (pos7 + 1) - 1 : file[q].kind \in {"section", "pair"}
  <2>1. l.kind \in {"section", "pair"}
    BY <1>2
  <2>2. \A q \in 1 .. pos7 - 1 : file[q].kind \in {"section", "pair"}
    BY <1>1 DEF IniInv, ParseInv
  <2>. QED BY <2>1, <2>2, <1>3
<1>9. ASSUME NEW x \in Ini!TSectionName PROVE Says(mapData', x) = ValueAbove(file, pos7 + 1, x)
  <2>1. Says(mapData, x) = ValueAbove(file, pos7, x) /\ sSection = Ini!SectionAt(file, pos7)
    BY <1>1 DEF IniInv, ParseInv
  <2>2. ValueAbove(file, pos7 + 1, x) =
           IF l.kind = "pair" /\ l.n = x.name /\ sSection = x.section
           THEN l.v ELSE Says(mapData, x)
    BY <2>1, <1>3, ValueAboveSteps
  <2>3. l.n = x.name /\ sSection = x.section <=> x = key0
    <3>1. x = [section |-> x.section, name |-> x.name]
      BY DEF Ini!TSectionName
    <3>2. key0.section = sSection /\ key0.name = l.n
      OBVIOUS
    <3>. QED BY <3>1, <3>2
  <2>4. CASE l.kind = "section"
    BY <2>2, <2>4, <1>2
  <2>5. CASE l.kind = "pair"
    <3>. HIDE DEF key0
    <3>1. Says(mapData', x) = IF x = key0 THEN l.v ELSE Says(mapData, x)
      BY <1>2, <2>5, SaysPut
    <3>. QED BY <3>1, <2>2, <2>3, <2>5
  <2>. QED BY <1>2, <2>4, <2>5
<1>10. ParseInv'
  <2>1. pos7 + 1 \in 1 .. Len(file) + 1 /\ asked \in Ini!TSectionName
    BY <1>1, <1>3 DEF IniInv, ParseInv
  <2>. QED BY <2>1, <1>1, <1>3, <1>7, <1>8, <1>9 DEF ParseInv
<1>11. Ini!MapIsTheFile'
  <2>1. iInitFlag' # 1
    BY <1>1, <1>3
  <2>. QED BY <2>1, Zenon DEF Ini!MapIsTheFile
<1>. QED BY <1>5, <1>6, <1>10, <1>11 DEF IniInv

\* A reading ends, at a line it cannot read or at the end of the file.
LEMMA ReadingEndsKeeps ==
  ASSUME IniInv, Ini!LineFails \/ Ini!EndOfFile
  PROVE  IniInv'
<1>1. /\ pc7 = "parse" /\ pc7' = "idle" /\ asked' = Ini!Nobody /\ pos7' = 0 /\ sSection' = Ini!Blank
      /\ file' = file /\ edits' = edits /\ leaked' = leaked
  BY DEF Ini!LineFails, Ini!EndOfFile, Ini!Return
<1>2. ParseInv'
  BY <1>1 DEF ParseInv
<1>3. iInitFlag = 0 /\ asked \in Ini!TSectionName
  BY <1>1 DEF IniInv, ParseInv
<1>4. CASE Ini!LineFails
  <2>1. iInitFlag' = 0 /\ mapData' = mapData
    BY <1>3, <1>4 DEF Ini!LineFails
  <2>2. IniCounts'
    BY <1>1, <2>1, IniConstants DEF IniInv, IniTypes, IniCounts
  <2>3. IniPlaces' /\ DataType(mapData')
    BY <1>1, <2>1 DEF IniInv, IniTypes, IniPlaces
  <2>4. iInitFlag' # 1
    BY <2>1
  <2>5. Ini!MapIsTheFile'
    BY <2>4, Zenon DEF Ini!MapIsTheFile
  <2>. QED BY <1>2, <2>2, <2>3, <2>5 DEF IniInv, IniTypes
<1>5. CASE Ini!EndOfFile
  <2>1. pos7 > Len(file) /\ iInitFlag' = 1 /\ image' = file /\ Ini!Answer(mapData, asked)
    BY <1>5 DEF Ini!EndOfFile
  <2>2. DataType(mapData') /\ \A x : Says(mapData', x) = Says(mapData, x)
    BY <2>1, <1>3, AnswerKeeps DEF IniInv
  <2>3. file \in Ini!Files /\ DOMAIN file = 1 .. Len(file) /\ Len(file) \in Nat /\ pos7 = Len(file) + 1
    <3>1. pos7 \in 1 .. Len(file) + 1
      BY <1>1 DEF IniInv, ParseInv
    <3>. QED BY <3>1, <2>1, FileLength
  <2>4. IniTypes'
    <3>1. IniCounts'
      BY <1>1, <2>1, IniConstants DEF IniInv, IniTypes, IniCounts
    <3>2. IniPlaces'
      BY <1>1, <2>1 DEF IniInv, IniTypes, IniPlaces
    <3>. QED BY <3>1, <3>2 DEF IniTypes
  <2>5. Ini!WellFormed(file)
    <3>1. \A q \in 1 .. pos7 - 1 : file[q].kind \in {"section", "pair"}
      BY <1>1 DEF IniInv, ParseInv
    <3>2. 1 .. pos7 - 1 = 1 .. Len(file)
      BY <2>3
    <3>. QED BY <3>1, <3>2, <2>3 DEF Ini!WellFormed
  <2>6. ASSUME NEW x \in Ini!TSectionName PROVE Says(mapData', x) = Ini!ValueIn(file, x)
    <3>1. Says(mapData, x) = ValueAbove(file, pos7, x)
      BY <1>1 DEF IniInv, ParseInv
    <3>. QED BY <3>1, <2>2, <2>3, ValueAboveEnd
  <2>7. Ini!MapIsTheFile'
    BY <2>1, <2>5, <2>6 DEF Ini!MapIsTheFile, Says
  <2>. QED BY <1>2, <2>2, <2>4, <2>7 DEF IniInv
<1>. QED BY <1>4, <1>5

\* Every step keeps the invariant.
LEMMA IniStep == IniInv /\ [Ini!Next]_(Ini!vars) => IniInv'
<1>. SUFFICES ASSUME IniInv, [Ini!Next]_(Ini!vars) PROVE IniInv'
  OBVIOUS
<1>1. CASE UNCHANGED Ini!vars
  <2>1. IniTypes' /\ DataType(mapData')
    BY <1>1 DEF Ini!vars, IniInv, IniTypes, IniCounts, IniPlaces
  <2>2. ParseInv' /\ Ini!MapIsTheFile'
    BY <1>1 DEF Ini!vars, IniInv, ParseInv, Ini!MapIsTheFile
  <2>. QED BY <2>1, <2>2 DEF IniInv
<1>2. CASE Ini!Next
  BY <1>2, IdleKeeps, OpenKeeps, ReadLineKeeps, ReadingEndsKeeps DEF Ini!Next, Ini!Ask
<1>. QED BY <1>1, <1>2

\* For every set of files, of any length, and any number of edits and of readings
\* that fail: once a reading has succeeded the map of TReadIni answers every question
\* with what that one version of the file says.
THEOREM MapIsOneFile == Ini!Spec => []MapIsTheFile
<1>1. IniInv => MapIsTheFile
  BY DEF IniInv, IniTypes, IniCounts, IniPlaces, DataType, MapIsTheFile, Ini!TypeOK
<1>2. Ini!Spec => []IniInv
  BY IniInit, IniStep, PTL DEF Ini!Spec
<1>. QED BY <1>1, <1>2, PTL

----------------------------------------------------------------------------
(***************************************************************************)
(* MinHeap, for every set of values and every size.  Where a sift has got  *)
(* to, the heap is out of order at one place: the children of that place   *)
(* are in order with its parent (SkipInv), and the slot behind the last    *)
(* one still has the value that sinks (LeftInv).  RootIsLeast looks at the *)
(* first slot that would have a smaller value than the root.               *)
(***************************************************************************)

\* The array, its length and the values in it.
HeapTypes == /\ Heap!iCapacity \in Nat
             /\ pContent \in [0 .. Heap!iCapacity - 1 -> HeapValues \cup {0}]
             /\ iSize \in 0 .. Heap!iCapacity
             /\ at \in 0 .. iSize /\ (pc2 = "up" => at < iSize)
             /\ \A x \in 0 .. iSize - 1 : pContent[x] \in HeapValues
HeapPlaces == top \in HeapValues \cup {-1} /\ pc2 \in {"idle", "up", "down"}

\* What refactor finds behind the last slot is the value that it sifts down.
LeftInv == pc2 = "down" => iSize < Heap!iCapacity /\ pContent[iSize] = pContent[at]

\* The children of where a sift has got to are in order with the parent of it.
SkipInv == pc2 \in {"up", "down"} /\ at # 0 =>
             \A x \in 1 .. iSize - 1 :
                Heap!Parent(x) = at => pContent[Heap!Parent(at)] <= pContent[x]

HeapInv == HeapTypes /\ HeapPlaces /\ LeftInv /\ Heap!HeapOrder /\ SkipInv

\* What is assumed of the constants.
LEMMA HeapConstants == HeapValues \subseteq Int /\ HeapSize \in Nat
  BY SequentialAssumption DEF Heap!MinHeapAssumption

\* Cardinality means the same in every module.
LEMMA SameHeapCardinality == \A S : Heap!Cardinality(S) = Cardinality(S)
  BY Zenon DEF Heap!Cardinality, Cardinality, Heap!IsFiniteSet, IsFiniteSet

\* The less-than relation of the natural numbers, as a set of pairs.
LessThan == {ss \in Nat \X Nat : ss[1] < ss[2]}

\* Every set of natural numbers with an element has a least one.
LEMMA LeastNat ==
  ASSUME NEW S \in SUBSET Nat, S # {}
  PROVE  \E x \in S : \A y \in S : x <= y
<1>1. IsWellFoundedOn(LessThan, Nat)
  BY NatLessThanWellFounded DEF LessThan, OpToRel
<1>2. PICK x \in S : \A y \in S : ~ (<<y, x>> \in LessThan)
  BY <1>1, WFMin, Zenon
<1>3. ASSUME NEW y \in S PROVE x <= y
  <2>1. x \in Nat /\ y \in Nat
    OBVIOUS
  <2>2. y < x => <<y, x>> \in LessThan
    BY <2>1 DEF LessThan
  <2>. QED BY <1>2, <2>1, <2>2
<1>. QED BY <1>3

\* A slot and its parent.
LEMMA ParentFacts ==
  \A x \in Nat \ {0} : /\ Heap!Parent(x) \in Nat /\ Heap!Parent(x) < x
                       /\ x = 2 * Heap!Parent(x) + 1 \/ x = 2 * Heap!Parent(x) + 2
  BY DEF Heap!Parent

\* The values that are in the first n slots of an array are integers.
LEMMA HeapNumbers ==
  ASSUME HeapTypes
  PROVE  /\ Heap!iCapacity \in Nat /\ iSize \in Nat /\ at \in Nat /\ at <= iSize /\ iSize <= Heap!iCapacity
         /\ DOMAIN pContent = 0 .. Heap!iCapacity - 1
         /\ \A x \in 0 .. Heap!iCapacity - 1 : pContent[x] \in Int
<1>1. HeapValues \cup {0} \subseteq Int
  BY HeapConstants
<1>2. \A x \in 0 .. Heap!iCapacity - 1 : pContent[x] \in HeapValues \cup {0}
  BY DEF HeapTypes
<1>3. /\ Heap!iCapacity \in Nat /\ iSize \in 0 .. Heap!iCapacity /\ at \in 0 .. iSize
      /\ DOMAIN pContent = 0 .. Heap!iCapacity - 1
  BY DEF HeapTypes
<1>4. \A x \in 0 .. Heap!iCapacity - 1 : pContent[x] \in Int
  BY <1>1, <1>2
<1>. QED BY <1>3, <1>4

\* Between two calls the first slot holds the smallest value: were there a smaller one,
\* the first slot with a smaller one would have a parent with a smaller one.
LEMMA RootIsLeast ==
  ASSUME HeapInv, pc2 = "idle", NEW x \in 0 .. iSize - 1
  PROVE  pContent[0] <= pContent[x]
<1>. DEFINE Less == {y \in 0 .. iSize - 1 : pContent[y] < pContent[0]}
<1>0. /\ Heap!iCapacity \in Nat /\ iSize \in Nat /\ iSize <= Heap!iCapacity
      /\ \A y \in 0 .. iSize - 1 : pContent[y] \in Int
  BY HeapNumbers DEF HeapInv
<1>1. CASE Less = {}
  BY <1>0, <1>1
<1>2. CASE Less # {}
  <2>1. Less \in SUBSET Nat
    BY <1>0
  <2>2. PICK y \in Less : \A z \in Less : y <= z
    BY <1>2, <2>1, LeastNat
  <2>3. y \in Nat \ {0} /\ y \in 0 .. iSize - 1
    BY <2>2, <1>0
  <2>4. Heap!Parent(y) \in Nat /\ Heap!Parent(y) < y
    BY <2>3, ParentFacts
  <2>5. pContent[Heap!Parent(y)] <= pContent[y]
    <3>1. y \in Heap!Slots \ {0}
      BY <2>3 DEF Heap!Slots
    <3>. QED BY <3>1 DEF HeapInv, Heap!HeapOrder
  <2>6. Heap!Parent(y) \in 0 .. iSize - 1
    BY <2>3, <2>4, <1>0
  <2>7. 0 \in 0 .. iSize - 1
    BY <2>3, <1>0
  <2>8. Heap!Parent(y) \in Less
    BY <1>0, <2>2, <2>3, <2>5, <2>6, <2>7
  <2>. QED BY <2>2, <2>4, <2>8, <2>3
<1>. QED BY <1>1, <1>2

\* The parts of an invariant that fit an array with a sift at a place.
LEMMA OrderNow ==
  ASSUME HeapInv
  PROVE  \A x \in 1 .. iSize - 1 : \/ pContent[Heap!Parent(x)] <= pContent[x]
                                   \/ pc2 = "up" /\ x = at
                                   \/ pc2 = "down" /\ Heap!Parent(x) = at
<1>1. 1 .. iSize - 1 \subseteq Heap!Slots \ {0}
  BY HeapNumbers DEF HeapInv, Heap!Slots
<1>. QED BY <1>1 DEF HeapInv, Heap!HeapOrder

\* The invariant holds at the start.
LEMMA HeapInit == Heap!Init => HeapInv
<1>. SUFFICES ASSUME Heap!Init PROVE HeapInv
  OBVIOUS
<1>1. pContent = [x \in {} |-> 0] /\ iSize = 0 /\ at = 0 /\ pc2 = "idle" /\ top = -1
  BY DEF Heap!Init
<1>2. Heap!iCapacity = 0
  BY <1>1, FS_EmptySet, SameHeapCardinality DEF Heap!iCapacity
<1>3. HeapTypes
  BY <1>1, <1>2 DEF HeapTypes
<1>4. Heap!Slots = {}
  BY <1>1 DEF Heap!Slots
<1>. QED BY <1>1, <1>3, <1>4 DEF HeapInv, HeapPlaces, LeftInv, Heap!HeapOrder, SkipInv

\* Two slots are exchanged.
LEMMA SwapFacts ==
  ASSUME HeapTypes, NEW x \in 0 .. iSize - 1, NEW y \in 0 .. iSize - 1,
         pContent' = Heap!myswap(x, y), iSize' = iSize, x # y
  PROVE  /\ Heap!iCapacity' = Heap!iCapacity /\ DOMAIN pContent' = DOMAIN pContent
         /\ pContent' \in [0 .. Heap!iCapacity - 1 -> HeapValues \cup {0}]
         /\ pContent'[x] = pContent[y] /\ pContent'[y] = pContent[x]
         /\ \A z \in 0 .. Heap!iCapacity - 1 : z \notin {x, y} => pContent'[z] = pContent[z]
         /\ \A z \in 0 .. iSize - 1 : pContent'[z] \in HeapValues
<1>1. x \in 0 .. Heap!iCapacity - 1 /\ y \in 0 .. Heap!iCapacity - 1
  BY HeapNumbers
<1>2. pContent' = [pContent EXCEPT ![x] = pContent[y], ![y] = pContent[x]]
  BY DEF Heap!myswap
<1>3. pContent \in [0 .. Heap!iCapacity - 1 -> HeapValues \cup {0}]
  BY DEF HeapTypes
<1>4. /\ DOMAIN pContent' = DOMAIN pContent
      /\ pContent' \in [0 .. Heap!iCapacity - 1 -> HeapValues \cup {0}]
      /\ pContent'[x] = pContent[y] /\ pContent'[y] = pContent[x]
      /\ \A z \in 0 .. Heap!iCapacity - 1 : z \notin {x, y} => pContent'[z] = pContent[z]
  BY <1>1, <1>2, <1>3
<1>5. Heap!iCapacity' = Heap!iCapacity
  BY <1>4 DEF Heap!iCapacity
<1>6. ASSUME NEW z \in 0 .. iSize - 1 PROVE pContent'[z] \in HeapValues
  <2>1. z \in 0 .. Heap!iCapacity - 1
    BY HeapNumbers
  <2>. QED BY <2>1, <1>4 DEF HeapTypes
<1>. QED BY <1>4, <1>5, <1>6

\* addItem's loop, one turn.
LEMMA SiftUpKeeps == ASSUME HeapInv, Heap!SiftUp PROVE HeapInv'
<1>. DEFINE a == at
            b == Heap!Parent(at)
<1>1. /\ pc2 = "up" /\ at # 0 /\ at' = b /\ iSize' = iSize /\ top' = top /\ pc2' = pc2
      /\ pContent' = IF pContent[a] < pContent[b] THEN Heap!myswap(a, b) ELSE pContent
  BY DEF Heap!SiftUp
<1>2. /\ iSize \in Nat /\ a \in Nat \ {0} /\ b \in Nat /\ b < a /\ a < iSize /\ iSize <= Heap!iCapacity
      /\ Heap!iCapacity \in Nat /\ a \in 0 .. iSize - 1 /\ b \in 0 .. iSize - 1
  <2>1. a \in Nat \ {0} /\ a < iSize /\ iSize \in Nat
    BY <1>1, HeapNumbers DEF HeapInv, HeapTypes
  <2>2. b \in Nat /\ b < a
    BY <2>1, ParentFacts
  <2>. QED BY <2>1, <2>2, HeapNumbers DEF HeapInv
<1>3. \A x \in 1 .. iSize - 1 : x # a => pContent[Heap!Parent(x)] <= pContent[x]
  BY <1>1, OrderNow
<1>4. \A x \in 1 .. iSize - 1 : Heap!Parent(x) = a => pContent[b] <= pContent[x]
  BY <1>1 DEF HeapInv, SkipInv
<1>5. \A x \in 0 .. iSize - 1 : pContent[x] \in Int
  BY HeapNumbers DEF HeapInv
<1>6. HeapPlaces' /\ LeftInv'
  BY <1>1 DEF HeapInv, HeapPlaces, LeftInv
<1>. HIDE DEF a, b
<1>7. a = at /\ b = Heap!Parent(at) /\ at' = b
  BY <1>1 DEF a, b
<1>8. ASSUME NEW x \in 1 .. iSize - 1
      PROVE  /\ x \in Nat \ {0} /\ x \in 0 .. iSize - 1 /\ Heap!Parent(x) \in 0 .. iSize - 1 /\ Heap!Parent(x) < x
             /\ pContent[x] \in Int /\ pContent[Heap!Parent(x)] \in Int
  <2>1. x \in Nat \ {0} /\ x \in 0 .. iSize - 1
    BY <1>2
  <2>2. Heap!Parent(x) \in Nat /\ Heap!Parent(x) < x
    BY <2>1, ParentFacts
  <2>. QED BY <2>1, <2>2, <1>2, <1>5
<1>9. /\ HeapTypes'
      /\ \A x \in 1 .. iSize - 1 : x # b => pContent'[Heap!Parent(x)] <= pContent'[x]
      /\ b # 0 => \A x \in 1 .. iSize - 1 : Heap!Parent(x) = b => pContent'[Heap!Parent(b)] <= pContent'[x]
  <2>1. CASE pContent[a] < pContent[b]
    <3>1. pContent' = Heap!myswap(a, b)
      BY <1>1, <1>7, <2>1 DEF a, b
    <3>2. /\ Heap!iCapacity' = Heap!iCapacity
          /\ pContent' \in [0 .. Heap!iCapacity - 1 -> HeapValues \cup {0}]
          /\ pContent'[a] = pContent[b] /\ pContent'[b] = pContent[a]
          /\ \A z \in 0 .. Heap!iCapacity - 1 : z \notin {a, b} => pContent'[z] = pContent[z]
          /\ \A z \in 0 .. iSize - 1 : pContent'[z] \in HeapValues
      <4>1. HeapTypes /\ a # b /\ iSize' = iSize /\ a \in 0 .. iSize - 1 /\ b \in 0 .. iSize - 1
        BY <1>1, <1>2 DEF HeapInv
      <4>. QED BY <4>1, <3>1, SwapFacts, Zenon
    <3>3. \A z \in 0 .. iSize - 1 : z \notin {a, b} => pContent'[z] = pContent[z]
      BY <3>2, <1>2
    <3>4. HeapTypes'
      BY <3>2, <1>1, <1>2, <1>7 DEF HeapInv, HeapTypes
    <3>5. ASSUME NEW x \in 1 .. iSize - 1, x # b PROVE pContent'[Heap!Parent(x)] <= pContent'[x]
      <4>1. CASE x = a
        BY <4>1, <3>2, <2>1, <1>2, <1>5, <1>7
      <4>2. CASE Heap!Parent(x) = a
        BY <4>2, <3>2, <3>3, <1>8, <1>4, <3>5
      <4>3. CASE Heap!Parent(x) = b /\ x # a
        <5>1. pContent[b] <= pContent[x] /\ pContent'[x] = pContent[x]
          BY <4>3, <3>3, <3>5, <1>8, <1>3
        <5>. QED BY <5>1, <4>3, <3>2, <2>1, <1>2, <1>5, <1>8
      <4>4. CASE x # a /\ Heap!Parent(x) \notin {a, b}
        BY <4>4, <3>3, <3>5, <1>8, <1>3
      <4>. QED BY <4>1, <4>2, <4>3, <4>4
    <3>6. ASSUME b # 0, NEW x \in 1 .. iSize - 1, Heap!Parent(x) = b
          PROVE  pContent'[Heap!Parent(b)] <= pContent'[x]
      <4>1. b \in 1 .. iSize - 1
        BY <1>2, <3>6
      <4>2. /\ pContent[Heap!Parent(b)] <= pContent[b] /\ Heap!Parent(b) \in 0 .. iSize - 1 /\ Heap!Parent(b) < b
            /\ pContent[Heap!Parent(b)] \in Int
        BY <4>1, <1>2, <1>3, <1>8
      <4>3. pContent'[Heap!Parent(b)] = pContent[Heap!Parent(b)]
        BY <4>2, <3>3, <1>2
      <4>4. CASE x = a
        BY <4>2, <4>3, <4>4, <3>2
      <4>5. CASE x # a
        <5>1. x # b
          BY <1>8, <3>6
        <5>2. pContent[b] <= pContent[x] /\ pContent'[x] = pContent[x]
          BY <5>1, <4>5, <3>3, <3>6, <1>8, <1>3
        <5>. QED BY <5>2, <4>2, <4>3, <1>2, <1>5, <1>8
      <4>. QED BY <4>4, <4>5
    <3>. QED BY <3>4, <3>5, <3>6
  <2>2. CASE ~ (pContent[a] < pContent[b])
    <3>1. pContent' = pContent
      BY <1>1, <1>7, <2>2 DEF a, b
    <3>2. Heap!iCapacity' = Heap!iCapacity
      BY <3>1 DEF Heap!iCapacity
    <3>3. HeapTypes'
      BY <3>1, <3>2, <1>1, <1>2, <1>7 DEF HeapInv, HeapTypes
    <3>4. \A x \in 1 .. iSize - 1 : pContent[Heap!Parent(x)] <= pContent[x]
      BY <2>2, <1>2, <1>3, <1>5, <1>7
    <3>5. ASSUME b # 0, NEW x \in 1 .. iSize - 1, Heap!Parent(x) = b
          PROVE  pContent[Heap!Parent(b)] <= pContent[x]
      <4>1. b \in 1 .. iSize - 1
        BY <1>2, <3>5
      <4>2. pContent[Heap!Parent(b)] <= pContent[b] /\ pContent[b] <= pContent[x]
        BY <4>1, <3>4, <3>5
      <4>. QED BY <4>1, <4>2, <1>8, <3>5
    <3>. QED BY <3>1, <3>3, <3>4, <3>5
  <2>. QED BY <2>1, <2>2
<1>10. Heap!HeapOrder'
  <2>1. Heap!Slots' \ {0} = 1 .. iSize - 1
    BY <1>1, <1>2 DEF Heap!Slots
  <2>. QED BY <2>1, <1>1, <1>7, <1>9 DEF Heap!HeapOrder, Heap!Parent
<1>11. SkipInv'
  BY <1>1, <1>7, <1>9 DEF SkipInv, Heap!Parent
<1>. QED BY <1>6, <1>9, <1>10, <1>11 DEF HeapInv

\* addItem puts the value behind the others, in a longer array if need be.
LEMMA AddedFacts ==
  ASSUME HeapInv, NEW value \in HeapValues, Heap!addItem(value)
  PROVE  /\ \E n \in Nat : n >= iSize + 1 /\ pContent' \in [0 .. n - 1 -> HeapValues \cup {0}]
         /\ pContent'[iSize] = value
         /\ \A x \in 0 .. iSize - 1 : pContent'[x] = pContent[x]
<1>1. /\ pContent' = [Heap!reserver EXCEPT ![iSize] = value] /\ iSize' = iSize + 1
      /\ pc2' = "up" /\ at' = iSize /\ top' = top /\ pc2 = "idle"
  BY DEF Heap!addItem
<1>2. /\ iSize \in Nat /\ Heap!iCapacity \in Nat /\ iSize <= Heap!iCapacity
      /\ DOMAIN pContent = 0 .. Heap!iCapacity - 1
      /\ pContent \in [0 .. Heap!iCapacity - 1 -> HeapValues \cup {0}]
  BY HeapNumbers DEF HeapInv, HeapTypes
<1>3. PICK n \in Nat : /\ n >= iSize + 1 /\ Heap!reserver \in [0 .. n - 1 -> HeapValues \cup {0}]
                       /\ \A x \in 0 .. iSize - 1 : Heap!reserver[x] = pContent[x]
  <2>1. CASE iSize + 1 <= Heap!iCapacity
    <3>1. Heap!reserver = pContent
      BY <2>1 DEF Heap!reserver
    <3>. QED BY <3>1, <1>2, <2>1
  <2>2. CASE ~ (iSize + 1 <= Heap!iCapacity)
    <3>1. Heap!reserver = [x \in 0 .. 2 * iSize |-> IF x < Heap!iCapacity THEN pContent[x] ELSE 0]
      BY <2>2 DEF Heap!reserver
    <3>2. Heap!iCapacity = iSize
      BY <2>2, <1>2
    <3>3. 2 * iSize + 1 \in Nat /\ (2 * iSize + 1) - 1 = 2 * iSize /\ 2 * iSize + 1 >= iSize + 1
      BY <1>2
    <3>4. \A x \in 0 .. 2 * iSize : x < Heap!iCapacity => pContent[x] \in HeapValues \cup {0}
      BY <1>2
    <3>5. Heap!reserver \in [0 .. 2 * iSize -> HeapValues \cup {0}]
      BY <3>1, <3>4
    <3>6. \A x \in 0 .. iSize - 1 : Heap!reserver[x] = pContent[x]
      BY <3>1, <3>2, <1>2
    <3>. QED BY <3>3, <3>5, <3>6
  <2>. QED BY <2>1, <2>2
<1>4. iSize \in 0 .. n - 1
  BY <1>2, <1>3
<1>5. /\ pContent' \in [0 .. n - 1 -> HeapValues \cup {0}] /\ pContent'[iSize] = value
      /\ \A x \in 0 .. iSize - 1 : pContent'[x] = pContent[x]
  BY <1>1, <1>2, <1>3, <1>4
<1>. QED BY <1>3, <1>5

\* addItem keeps the invariant.
LEMMA AddKeeps == ASSUME HeapInv, NEW value \in HeapValues, Heap!addItem(value) PROVE HeapInv'
<1>1. /\ pContent' = [Heap!reserver EXCEPT ![iSize] = value] /\ iSize' = iSize + 1
      /\ pc2' = "up" /\ at' = iSize /\ top' = top /\ pc2 = "idle"
  BY DEF Heap!addItem
<1>2. /\ iSize \in Nat /\ Heap!iCapacity \in Nat /\ iSize <= Heap!iCapacity
      /\ DOMAIN pContent = 0 .. Heap!iCapacity - 1
      /\ pContent \in [0 .. Heap!iCapacity - 1 -> HeapValues \cup {0}]
  BY HeapNumbers DEF HeapInv, HeapTypes
<1>3. PICK n \in Nat : n >= iSize + 1 /\ pContent' \in [0 .. n - 1 -> HeapValues \cup {0}]
  BY AddedFacts
<1>5. /\ pContent' \in [0 .. n - 1 -> HeapValues \cup {0}] /\ pContent'[iSize] = value
      /\ \A x \in 0 .. iSize - 1 : pContent'[x] = pContent[x]
  BY <1>3, AddedFacts
<1>6. Heap!iCapacity' = n
  <2>1. DOMAIN pContent' = 0 .. n - 1
    BY <1>5
  <2>2. Cardinality(0 .. n - 1) = n
    BY FS_Interval, 0 \in Int, n - 1 \in Int
  <2>. QED BY <2>1, <2>2, SameHeapCardinality DEF Heap!iCapacity
<1>7. HeapTypes'
  <2>1. \A x \in 0 .. (iSize + 1) - 1 : pContent'[x] \in HeapValues
    BY <1>2, <1>5 DEF HeapInv, HeapTypes
  <2>2. iSize' \in 0 .. n /\ at' \in 0 .. iSize' /\ at' < iSize'
    BY <1>1, <1>2, <1>3
  <2>. QED BY <2>1, <2>2, <1>1, <1>5, <1>6 DEF HeapTypes
<1>8. HeapPlaces' /\ LeftInv'
  BY <1>1 DEF HeapInv, HeapPlaces, LeftInv
<1>9. ASSUME NEW x \in 1 .. (iSize + 1) - 1
      PROVE  /\ x # iSize => pContent'[Heap!Parent(x)] <= pContent'[x]
             /\ Heap!Parent(x) # iSize
  <2>1. x \in Nat \ {0} /\ x <= iSize
    BY <1>2
  <2>2. Heap!Parent(x) \in Nat /\ Heap!Parent(x) < x
    BY <2>1, ParentFacts
  <2>3. ASSUME x # iSize PROVE pContent'[Heap!Parent(x)] <= pContent'[x]
    <3>1. x \in 0 .. iSize - 1 /\ Heap!Parent(x) \in 0 .. iSize - 1 /\ x \in 1 .. iSize - 1
      BY <1>2, <2>1, <2>2, <2>3
    <3>2. pContent[Heap!Parent(x)] <= pContent[x]
      BY <3>1, <1>1, OrderNow
    <3>. QED BY <3>1, <3>2, <1>5
  <2>. QED BY <2>1, <2>2, <2>3, <1>2
<1>10. Heap!HeapOrder'
  <2>1. Heap!Slots' \ {0} = 1 .. (iSize + 1) - 1
    BY <1>1, <1>2 DEF Heap!Slots
  <2>. QED BY <2>1, <1>1, <1>9 DEF Heap!HeapOrder, Heap!Parent
<1>11. SkipInv'
  BY <1>1, <1>9 DEF SkipInv, Heap!Parent
<1>. QED BY <1>7, <1>8, <1>10, <1>11 DEF HeapInv

\* topItem moves the last value to the first slot.
LEMMA TopKeeps == ASSUME HeapInv, Heap!topItem PROVE HeapInv'
<1>1. /\ pc2 = "idle" /\ iSize > 0 /\ top' = pContent[0] /\ pContent' = [pContent EXCEPT ![0] = pContent[iSize - 1]]
      /\ iSize' = iSize - 1 /\ pc2' = "down" /\ at' = 0
  BY DEF Heap!topItem
<1>2. /\ iSize \in Nat \ {0} /\ Heap!iCapacity \in Nat /\ iSize <= Heap!iCapacity
      /\ DOMAIN pContent = 0 .. Heap!iCapacity - 1
      /\ pContent \in [0 .. Heap!iCapacity - 1 -> HeapValues \cup {0}]
  BY <1>1, HeapNumbers DEF HeapInv, HeapTypes
<1>3. /\ 0 \in 0 .. iSize - 1 /\ iSize - 1 \in 0 .. iSize - 1
      /\ 0 \in 0 .. Heap!iCapacity - 1 /\ iSize - 1 \in 0 .. Heap!iCapacity - 1
  BY <1>2
<1>4. /\ pContent' \in [0 .. Heap!iCapacity - 1 -> HeapValues \cup {0}]
      /\ pContent'[0] = pContent[iSize - 1]
      /\ \A x \in 0 .. Heap!iCapacity - 1 : x # 0 => pContent'[x] = pContent[x]
      /\ DOMAIN pContent' = DOMAIN pContent
  BY <1>1, <1>2, <1>3
<1>5. Heap!iCapacity' = Heap!iCapacity
  BY <1>4 DEF Heap!iCapacity
<1>6. HeapTypes'
  <2>1. ASSUME NEW x \in 0 .. (iSize - 1) - 1 PROVE pContent'[x] \in HeapValues
    <3>1. x \in 0 .. iSize - 1 /\ x \in 0 .. Heap!iCapacity - 1
      BY <1>2
    <3>. QED BY <3>1, <1>3, <1>4 DEF HeapInv, HeapTypes
  <2>2. iSize' \in 0 .. Heap!iCapacity /\ at' \in 0 .. iSize'
    BY <1>1, <1>2
  <2>. QED BY <2>1, <2>2, <1>1, <1>2, <1>4, <1>5 DEF HeapTypes
<1>7. HeapPlaces'
  BY <1>1, <1>3 DEF HeapInv, HeapTypes, HeapPlaces
<1>8. LeftInv'
  <2>1. pContent'[iSize - 1] = pContent'[0]
    BY <1>3, <1>4
  <2>2. iSize - 1 < Heap!iCapacity
    BY <1>2
  <2>. QED BY <2>1, <2>2, <1>1, <1>5 DEF LeftInv
<1>9. ASSUME NEW x \in 1 .. (iSize - 1) - 1, Heap!Parent(x) # 0
      PROVE  pContent'[Heap!Parent(x)] <= pContent'[x]
  <2>1. x \in Nat \ {0} /\ x < iSize
    BY <1>2
  <2>2. Heap!Parent(x) \in Nat /\ Heap!Parent(x) < x
    BY <2>1, ParentFacts
  <2>3. x \in 1 .. iSize - 1 /\ x \in 0 .. Heap!iCapacity - 1 /\ Heap!Parent(x) \in 0 .. Heap!iCapacity - 1
    BY <1>2, <2>1, <2>2
  <2>4. pContent[Heap!Parent(x)] <= pContent[x]
    BY <2>3, <1>1, OrderNow
  <2>. QED BY <2>1, <2>3, <2>4, <1>4, <1>9
<1>10. Heap!HeapOrder'
  <2>1. Heap!Slots' \ {0} = 1 .. (iSize - 1) - 1
    BY <1>1, <1>2 DEF Heap!Slots
  <2>. QED BY <2>1, <1>1, <1>9 DEF Heap!HeapOrder, Heap!Parent
<1>11. SkipInv'
  BY <1>1 DEF SkipInv
<1>. QED BY <1>6, <1>7, <1>8, <1>10, <1>11 DEF HeapInv

\* What refactor finds: nothing smaller below, or the smaller child, which is not the
\* slot behind the last one.
LEMMA SmallFacts ==
  ASSUME HeapInv, pc2 = "down"
  PROVE  /\ Heap!Small(at) = at =>
               \A x \in 1 .. iSize - 1 : Heap!Parent(x) = at => pContent[at] <= pContent[x]
         /\ Heap!Small(at) # at =>
               /\ Heap!Small(at) \in 1 .. iSize - 1 /\ Heap!Parent(Heap!Small(at)) = at
               /\ pContent[Heap!Small(at)] < pContent[at]
               /\ \A x \in 1 .. iSize - 1 : Heap!Parent(x) = at => pContent[Heap!Small(at)] <= pContent[x]
<1>. DEFINE l == 2 * at + 1
            r == 2 * at + 2
            s1 == Heap!Smaller(at, l)
            s == Heap!Smaller(s1, r)
<1>1. Heap!Small(at) = s
  BY DEF Heap!Small, Heap!Child
<1>2. /\ iSize \in Nat /\ at \in Nat /\ Heap!iCapacity \in Nat /\ iSize < Heap!iCapacity
      /\ pContent[iSize] = pContent[at]
      /\ \A x \in 0 .. Heap!iCapacity - 1 : pContent[x] \in Int
  BY HeapNumbers DEF HeapInv, LeftInv
<1>3. /\ \A x \in 0 .. iSize : pContent[x] \in Int
      /\ at \in 0 .. iSize
  BY <1>2, HeapNumbers DEF HeapInv
<1>4. /\ s1 = IF l <= iSize /\ pContent[l] < pContent[at] THEN l ELSE at
      /\ s = IF r <= iSize /\ pContent[r] < pContent[s1] THEN r ELSE s1
  BY DEF Heap!Smaller
<1>5. /\ l <= iSize => l \in 0 .. iSize
      /\ r <= iSize => r \in 0 .. iSize /\ l < iSize
      /\ l # at /\ r # at /\ l # r /\ l \in Nat \ {0} /\ r \in Nat \ {0}
  BY <1>2
<1>6. Heap!Parent(l) = at /\ Heap!Parent(r) = at
  <2>1. /\ Heap!Parent(l) \in Nat /\ (l = 2 * Heap!Parent(l) + 1 \/ l = 2 * Heap!Parent(l) + 2)
        /\ Heap!Parent(r) \in Nat /\ (r = 2 * Heap!Parent(r) + 1 \/ r = 2 * Heap!Parent(r) + 2)
    BY <1>5, ParentFacts, Zenon
  <2>. QED BY <2>1, <1>2
<1>7. ASSUME NEW x \in 1 .. iSize - 1, Heap!Parent(x) = at PROVE (x = l \/ x = r) /\ x < iSize
  <2>1. x \in Nat \ {0} /\ x < iSize
    BY <1>2
  <2>. QED BY <2>1, <1>7, ParentFacts
<1>. HIDE DEF l, r, s, s1
<1>8. s1 = l => l < iSize /\ pContent[l] < pContent[at]
  <2>1. s1 = l => l <= iSize /\ pContent[l] < pContent[at]
    BY <1>4, <1>5
  <2>2. s1 = l => l # iSize
    BY <2>1, <1>2, <1>3
  <2>. QED BY <2>1, <2>2, <1>2, <1>5
<1>9. s1 # l => s1 = at /\ (l < iSize => pContent[at] <= pContent[l])
  <2>1. s1 # l => s1 = at /\ ~ (l <= iSize /\ pContent[l] < pContent[at])
    BY <1>4
  <2>. QED BY <2>1, <1>2, <1>3, <1>5
<1>10. s1 \in 0 .. iSize /\ pContent[s1] <= pContent[at]
  <2>1. CASE s1 = l
    BY <2>1, <1>8, <1>5, <1>3, <1>2
  <2>2. CASE s1 = at
    BY <2>2, <1>3
  <2>. QED BY <2>1, <2>2, <1>4
<1>11. s = r => r < iSize /\ pContent[r] < pContent[s1] /\ r # s1
  <2>1. s1 # r
    BY <1>4, <1>5
  <2>2. s = r => r <= iSize /\ pContent[r] < pContent[s1]
    BY <1>4, <2>1
  <2>3. s = r => r # iSize
    BY <2>2, <1>2, <1>3, <1>10
  <2>. QED BY <2>1, <2>2, <2>3, <1>2, <1>5
<1>12. s # r => s = s1 /\ (r < iSize => pContent[s1] <= pContent[r])
  <2>1. s # r => s = s1 /\ ~ (r <= iSize /\ pContent[r] < pContent[s1])
    BY <1>4
  <2>. QED BY <2>1, <1>2, <1>3, <1>5, <1>10
<1>13. CASE s = r
  <2>1. r \in 1 .. iSize - 1 /\ r \in 0 .. iSize /\ s # at
    BY <1>11, <1>13, <1>2, <1>5
  <2>2. pContent[r] < pContent[at]
    BY <1>11, <1>13, <1>10, <1>3, <2>1
  <2>3. l < iSize => pContent[r] <= pContent[l]
    <3>1. CASE s1 = l
      BY <3>1, <1>11, <1>13, <1>3, <2>1, <1>10
    <3>2. CASE s1 # l
      <4>1. l < iSize => pContent[at] <= pContent[l] /\ pContent[l] \in Int
        BY <3>2, <1>9, <1>3, <1>5, <1>2
      <4>2. pContent[r] \in Int /\ pContent[at] \in Int
        BY <2>1, <1>3
      <4>. QED BY <4>1, <4>2, <2>2
    <3>. QED BY <3>1, <3>2
  <2>4. pContent[r] <= pContent[r]
    BY <2>1, <1>3
  <2>. QED BY <1>1, <1>13, <1>6, <1>7, <2>1, <2>2, <2>3, <2>4
<1>14. CASE s # r /\ s1 = l
  <2>1. l \in 1 .. iSize - 1 /\ l \in 0 .. iSize /\ s = l /\ s # at
    BY <1>14, <1>12, <1>8, <1>2, <1>5
  <2>2. pContent[l] < pContent[at] /\ (r < iSize => pContent[l] <= pContent[r]) /\ pContent[l] <= pContent[l]
    BY <1>14, <1>12, <1>8, <2>1, <1>3
  <2>. QED BY <1>1, <1>6, <1>7, <2>1, <2>2
<1>15. CASE s # r /\ s1 # l
  <2>1. s = at /\ (l < iSize => pContent[at] <= pContent[l]) /\ (r < iSize => pContent[at] <= pContent[r])
    BY <1>15, <1>9, <1>12
  <2>. QED BY <1>1, <1>7, <2>1
<1>. QED BY <1>13, <1>14, <1>15

\* refactor sifts one level down, or is done.
LEMMA RefactorKeeps == ASSUME HeapInv, Heap!refactor PROVE HeapInv'
<1>. DEFINE a == at
            s == Heap!Small(at)
<1>1. /\ pc2 = "down" /\ iSize' = iSize /\ top' = top
      /\ IF s # a THEN pContent' = Heap!myswap(s, a) /\ at' = s /\ pc2' = pc2
         ELSE pc2' = "idle" /\ pContent' = pContent /\ at' = at
  BY DEF Heap!refactor
<1>2. /\ iSize \in Nat /\ Heap!iCapacity \in Nat /\ iSize < Heap!iCapacity
      /\ pContent[iSize] = pContent[at] /\ a \in Nat /\ a <= iSize
      /\ \A x \in 0 .. iSize - 1 : pContent[x] \in Int
  BY <1>1, HeapNumbers DEF HeapInv, LeftInv
<1>3. \A x \in 1 .. iSize - 1 : Heap!Parent(x) # a => pContent[Heap!Parent(x)] <= pContent[x]
  BY <1>1, OrderNow
<1>4. a # 0 => \A x \in 1 .. iSize - 1 : Heap!Parent(x) = a => pContent[Heap!Parent(a)] <= pContent[x]
  BY <1>1 DEF HeapInv, SkipInv
<1>5. HeapPlaces'
  BY <1>1 DEF HeapInv, HeapPlaces
<1>6. CASE s = a
  <2>1. pc2' = "idle" /\ pContent' = pContent /\ at' = at
    BY <1>1, <1>6
  <2>2. Heap!iCapacity' = Heap!iCapacity
    BY <2>1 DEF Heap!iCapacity
  <2>3. HeapTypes' /\ LeftInv' /\ SkipInv'
    BY <2>1, <2>2, <1>1 DEF HeapInv, HeapTypes, LeftInv, SkipInv
  <2>4. \A x \in 1 .. iSize - 1 : pContent[Heap!Parent(x)] <= pContent[x]
    BY <1>1, <1>3, <1>6, SmallFacts
  <2>5. Heap!Slots' \ {0} = 1 .. iSize - 1
    BY <1>1, <1>2 DEF Heap!Slots
  <2>6. Heap!HeapOrder'
    BY <2>1, <2>4, <2>5 DEF Heap!HeapOrder, Heap!Parent
  <2>. QED BY <1>5, <2>3, <2>6 DEF HeapInv
<1>7. CASE s # a
  <2>1. pContent' = Heap!myswap(s, a) /\ at' = s /\ pc2' = "down"
    BY <1>1, <1>7
  <2>2. /\ s \in 1 .. iSize - 1 /\ Heap!Parent(s) = a /\ pContent[s] < pContent[a]
        /\ \A x \in 1 .. iSize - 1 : Heap!Parent(x) = a => pContent[s] <= pContent[x]
    BY <1>1, <1>7, SmallFacts
  <2>. HIDE DEF s
  <2>3. s \in Nat \ {0} /\ a < s /\ s \in 0 .. iSize - 1 /\ a \in 0 .. iSize - 1
    BY <2>2, <1>2, ParentFacts
  <2>4. /\ Heap!iCapacity' = Heap!iCapacity
        /\ pContent' \in [0 .. Heap!iCapacity - 1 -> HeapValues \cup {0}]
        /\ pContent'[s] = pContent[a] /\ pContent'[a] = pContent[s]
        /\ \A z \in 0 .. Heap!iCapacity - 1 : z \notin {s, a} => pContent'[z] = pContent[z]
        /\ \A z \in 0 .. iSize - 1 : pContent'[z] \in HeapValues
    <3>1. HeapTypes /\ iSize' = iSize /\ s # a
      BY <1>1, <1>7 DEF HeapInv
    <3>2. s \in 0 .. iSize - 1 /\ a \in 0 .. iSize - 1 /\ pContent' = Heap!myswap(s, a)
      BY <2>1, <2>3
    <3>. QED BY <3>1, <3>2, SwapFacts, Zenon
  <2>5. \A z \in 0 .. iSize : z \notin {s, a} => pContent'[z] = pContent[z]
    BY <2>4, <1>2
  <2>6. HeapTypes'
    BY <1>1, <1>2, <2>1, <2>3, <2>4 DEF HeapInv, HeapTypes
  <2>7. LeftInv'
    <3>1. pContent'[iSize] = pContent[iSize]
      BY <2>3, <2>5, <1>2
    <3>. QED BY <3>1, <1>1, <1>2, <2>1, <2>4 DEF LeftInv
  <2>8. ASSUME NEW x \in 1 .. iSize - 1
        PROVE  /\ x \in Nat \ {0} /\ x \in 0 .. iSize - 1 /\ Heap!Parent(x) \in 0 .. iSize - 1 /\ Heap!Parent(x) < x
               /\ pContent[x] \in Int /\ pContent[Heap!Parent(x)] \in Int
               /\ x \in 0 .. iSize /\ Heap!Parent(x) \in 0 .. iSize
    <3>1. x \in Nat \ {0} /\ x \in 0 .. iSize - 1
      BY <1>2
    <3>2. Heap!Parent(x) \in Nat /\ Heap!Parent(x) < x
      BY <3>1, ParentFacts
    <3>. QED BY <3>1, <3>2, <1>2
  <2>9. pContent[a] \in Int /\ pContent[s] \in Int
    BY <1>2, <2>3
  <2>10. ASSUME NEW x \in 1 .. iSize - 1, Heap!Parent(x) # s PROVE pContent'[Heap!Parent(x)] <= pContent'[x]
    <3>1. CASE x = s
      BY <3>1, <2>2, <2>4, <2>9
    <3>2. CASE Heap!Parent(x) = a /\ x # s
      <4>1. x # a
        BY <3>2, <2>8
      <4>2. pContent'[x] = pContent[x]
        BY <3>2, <4>1, <2>5, <2>8
      <4>. QED BY <3>2, <4>2, <2>2, <2>4
    <3>3. CASE x = a
      <4>1. a # 0 /\ Heap!Parent(a) \in 0 .. iSize /\ Heap!Parent(a) < a
        BY <3>3, <2>8
      <4>2. Heap!Parent(a) # s
        BY <2>10, <3>3
      <4>3. pContent'[Heap!Parent(a)] = pContent[Heap!Parent(a)]
        BY <4>1, <4>2, <2>5, <2>3
      <4>4. pContent[Heap!Parent(a)] <= pContent[s]
        BY <4>1, <1>4, <2>2
      <4>. QED BY <3>3, <4>3, <4>4, <2>4
    <3>4. CASE x # s /\ x # a /\ Heap!Parent(x) # a
      BY <3>4, <2>5, <2>8, <2>10, <1>3
    <3>. QED BY <3>1, <3>2, <3>3, <3>4
  <2>11. ASSUME NEW x \in 1 .. iSize - 1, Heap!Parent(x) = s PROVE pContent'[Heap!Parent(s)] <= pContent'[x]
    <3>1. x # s /\ x # a
      BY <2>8, <2>11, <2>3
    <3>2. pContent'[x] = pContent[x] /\ pContent[s] <= pContent[x]
      BY <3>1, <2>5, <2>8, <2>11, <1>3, <1>7
    <3>. QED BY <3>2, <2>2, <2>4
  <2>12. Heap!HeapOrder'
    <3>1. Heap!Slots' \ {0} = 1 .. iSize - 1
      BY <1>1, <1>2 DEF Heap!Slots
    <3>. QED BY <3>1, <2>1, <2>10 DEF Heap!HeapOrder, Heap!Parent
  <2>13. SkipInv'
    BY <1>1, <2>1, <2>11 DEF SkipInv, Heap!Parent
  <2>. QED BY <1>5, <2>6, <2>7, <2>12, <2>13 DEF HeapInv
<1>. QED BY <1>6, <1>7

\* Every step keeps the invariant.
LEMMA HeapStep == HeapInv /\ [Heap!Next]_(Heap!vars) => HeapInv'
<1>. SUFFICES ASSUME HeapInv, [Heap!Next]_(Heap!vars) PROVE HeapInv'
  OBVIOUS
<1>1. CASE Heap!Added
  <2>1. pc2 = "up" /\ at = 0 /\ pc2' = "idle" /\ UNCHANGED <<pContent, iSize, top, at>>
    BY <1>1 DEF Heap!Added
  <2>2. HeapTypes' /\ HeapPlaces' /\ LeftInv' /\ SkipInv'
    BY <2>1 DEF HeapInv, HeapTypes, Heap!iCapacity, HeapPlaces, LeftInv, SkipInv
  <2>3. \A x \in Heap!Slots \ {0} : pContent[Heap!Parent(x)] <= pContent[x]
    BY <2>1 DEF HeapInv, Heap!HeapOrder
  <2>4. Heap!HeapOrder'
    BY <2>1, <2>3 DEF Heap!HeapOrder, Heap!Slots, Heap!Parent
  <2>. QED BY <2>2, <2>4 DEF HeapInv
<1>2. CASE UNCHANGED Heap!vars
  <2>1. HeapTypes' /\ HeapPlaces' /\ LeftInv' /\ SkipInv' /\ Heap!HeapOrder'
    BY <1>2 DEF Heap!vars, HeapInv, HeapTypes, Heap!iCapacity, HeapPlaces, LeftInv, SkipInv, Heap!HeapOrder,
                Heap!Slots, Heap!Parent
  <2>. QED BY <2>1 DEF HeapInv
<1>3. CASE Heap!Next
  BY <1>1, <1>3, AddKeeps, TopKeeps, SiftUpKeeps, RefactorKeeps DEF Heap!Next
<1>. QED BY <1>2, <1>3

\* The array keeps the heap order at every step, for every number of values; and
\* refactor, which looks one slot too far, looks within the array.
THEOREM HeapSound == Heap!Spec => [](Heap!TypeOK /\ Heap!HeapOrder)
<1>1. HeapInv => Heap!TypeOK /\ Heap!HeapOrder
  <2>. SUFFICES ASSUME HeapInv PROVE Heap!TypeOK
    BY DEF HeapInv
  <2>1. at \in 0 .. Heap!iCapacity
    BY HeapNumbers DEF HeapInv
  <2>. QED BY <2>1 DEF HeapInv, HeapTypes, HeapPlaces, LeftInv, Heap!TypeOK
<1>2. Heap!Spec => []HeapInv
  BY HeapInit, HeapStep, PTL DEF Heap!Spec
<1>. QED BY <1>1, <1>2, PTL

\* How often a value is in the first n slots of an array.
Spots(g, n, val) == {x \in 0 .. n - 1 : g[x] = val}
Count(g, n, val) == Cardinality(Spots(g, n, val))

\* The second array holds what the first does: in each of the first n slots, and with
\* two of them exchanged.
Agree(n, g, h) == \A x \in 0 .. n - 1 : h[x] = g[x]
Crossed(n, g, h, x, y) == /\ h[x] = g[y] /\ h[y] = g[x]
                          /\ \A z \in 0 .. n - 1 : z \notin {x, y} => h[z] = g[z]

\* Arrays that agree in the slots agree in the counts.
LEMMA CountAgrees ==
  ASSUME NEW n, NEW g, NEW h, Agree(n, g, h), NEW val
  PROVE  Count(h, n, val) = Count(g, n, val)
<1>1. Spots(h, n, val) = Spots(g, n, val)
  BY DEF Spots, Agree
<1>. QED BY <1>1 DEF Count

\* The last slot adds one to the count of its value.
LEMMA CountLast ==
  ASSUME NEW n \in Nat, NEW g, NEW val
  PROVE  /\ Count(g, n, val) \in Nat /\ IsFiniteSet(Spots(g, n, val))
         /\ Count(g, n + 1, val) = Count(g, n, val) + (IF g[n] = val THEN 1 ELSE 0)
<1>1. IsFiniteSet(Spots(g, n, val))
  <2>1. IsFiniteSet(0 .. n - 1)
    BY FS_Interval, 0 \in Int, n - 1 \in Int
  <2>2. Spots(g, n, val) \in SUBSET (0 .. n - 1)
    BY DEF Spots
  <2>. QED BY <2>1, <2>2, FS_Subset
<1>2. Count(g, n, val) \in Nat
  BY <1>1, FS_CardinalityType DEF Count
<1>3. CASE g[n] = val
  <2>1. Spots(g, n + 1, val) = Spots(g, n, val) \cup {n} /\ n \notin Spots(g, n, val)
    BY <1>3 DEF Spots
  <2>. QED BY <1>1, <1>2, <1>3, <2>1, FS_AddElement DEF Count
<1>4. CASE g[n] # val
  <2>1. Spots(g, n + 1, val) = Spots(g, n, val)
    BY <1>4 DEF Spots
  <2>. QED BY <1>1, <1>2, <1>4, <2>1 DEF Count
<1>. QED BY <1>1, <1>2, <1>3, <1>4

\* Exchanging two slots changes no count.
LEMMA CountSwapped ==
  ASSUME NEW n \in Nat, NEW g, NEW h, NEW x \in 0 .. n - 1, NEW y \in 0 .. n - 1, x # y,
         Crossed(n, g, h, x, y), NEW val
  PROVE  Count(h, n, val) = Count(g, n, val)
<1>. DEFINE S == Spots(g, n, val)
<1>1. IsFiniteSet(S) /\ Cardinality(S) \in Nat
  BY CountLast, FS_CardinalityType
<1>2. CASE g[x] = val /\ g[y] # val
  <2>1. Spots(h, n, val) = (S \ {x}) \cup {y} /\ x \in S /\ y \notin S \ {x}
    BY <1>2 DEF Spots, Crossed
  <2>2. IsFiniteSet(S \ {x}) /\ Cardinality(S \ {x}) = Cardinality(S) - 1
    BY <1>1, <2>1, FS_RemoveElement
  <2>3. Cardinality((S \ {x}) \cup {y}) = Cardinality(S \ {x}) + 1
    BY <2>1, <2>2, FS_AddElement
  <2>. QED BY <1>1, <2>1, <2>2, <2>3 DEF Count
<1>3. CASE g[x] # val /\ g[y] = val
  <2>1. Spots(h, n, val) = (S \ {y}) \cup {x} /\ y \in S /\ x \notin S \ {y}
    BY <1>3 DEF Spots, Crossed
  <2>2. IsFiniteSet(S \ {y}) /\ Cardinality(S \ {y}) = Cardinality(S) - 1
    BY <1>1, <2>1, FS_RemoveElement
  <2>3. Cardinality((S \ {y}) \cup {x}) = Cardinality(S \ {y}) + 1
    BY <2>1, <2>2, FS_AddElement
  <2>. QED BY <1>1, <2>1, <2>2, <2>3 DEF Count
<1>4. CASE g[x] = val <=> g[y] = val
  <2>1. Spots(h, n, val) = S
    BY <1>4 DEF Spots, Crossed
  <2>. QED BY <2>1 DEF Count
<1>. QED BY <1>2, <1>3, <1>4

\* The last value is moved to the first slot, and the last slot is given up: one of
\* what was first is gone.
LEMMA CountTaken ==
  ASSUME NEW n \in Nat, NEW g, NEW h, h[0] = g[n], NEW val,
         \A z \in 0 .. n - 1 : z # 0 => h[z] = g[z]
  PROVE  Count(g, n + 1, val) = Count(h, n, val) + (IF g[0] = val THEN 1 ELSE 0)
<1>. DEFINE q == [z \in 0 .. n |-> IF z = 0 THEN g[n] ELSE IF z = n THEN g[0] ELSE g[z]]
<1>0. /\ 0 \in 0 .. n /\ n \in 0 .. n /\ n + 1 \in Nat /\ (n + 1) - 1 = n
      /\ 0 .. n - 1 \subseteq 0 .. n /\ \A z \in 0 .. n - 1 : z # n
  OBVIOUS
<1>1. q[n] = g[0] /\ q[0] = g[n] /\ \A z \in 0 .. n : z \notin {0, n} => q[z] = g[z]
  BY <1>0
<1>. HIDE DEF q
<1>2. Count(q, n + 1, val) = Count(g, n + 1, val)
  <2>1. CASE n = 0
    <3>1. Agree(n + 1, g, q)
      BY <2>1, <1>1 DEF Agree
    <3>. QED BY <3>1, CountAgrees
  <2>2. CASE n # 0
    <3>1. Crossed(n + 1, g, q, 0, n) /\ 0 \in 0 .. (n + 1) - 1 /\ n \in 0 .. (n + 1) - 1
      BY <1>0, <1>1 DEF Crossed
    <3>2. n + 1 \in Nat /\ 0 # n
      BY <1>0, <2>2
    <3>. QED BY <3>1, <3>2, CountSwapped
  <2>. QED BY <2>1, <2>2
<1>3. Count(h, n, val) = Count(q, n, val)
  <2>1. Agree(n, q, h)
    BY <1>0, <1>1 DEF Agree
  <2>. QED BY <2>1, CountAgrees
<1>4. Count(q, n + 1, val) = Count(q, n, val) + (IF q[n] = val THEN 1 ELSE 0)
  BY CountLast
<1>. QED BY <1>1, <1>2, <1>3, <1>4

\* The bag that MinQueue speaks of.
HeapBag == [val \in HeapValues |-> Count(pContent, iSize, val)]

\* It is the one of the refinement mapping.
LEMMA BagIs ==
  /\ HeapBag = [val \in HeapValues |-> Heap!Cardinality({x \in Heap!Slots : pContent[x] = val})]
  /\ HeapBag' = [val \in HeapValues |-> Heap!Cardinality({x \in Heap!Slots : pContent[x] = val})]'
<1>1. HeapBag = [val \in HeapValues |-> Heap!Cardinality({x \in Heap!Slots : pContent[x] = val})]
  BY SameHeapCardinality DEF HeapBag, Count, Spots, Heap!Slots
<1>2. HeapBag' = [val \in HeapValues |-> Heap!Cardinality({x \in Heap!Slots : pContent[x] = val})]'
  BY SameHeapCardinality DEF HeapBag, Count, Spots, Heap!Slots
<1>. QED BY <1>1, <1>2

\* A step of the heap is a step of the bag, or leaves it alone.
LEMMA BagStep ==
  ASSUME HeapInv, [Heap!Next]_(Heap!vars)
  PROVE  \/ \E val \in HeapValues : /\ HeapBag' = [HeapBag EXCEPT ![val] = @ + 1] /\ top' = top
         \/ \E val \in HeapValues : /\ HeapBag[val] > 0
                                    /\ \A w \in HeapValues : HeapBag[w] > 0 => val <= w
                                    /\ HeapBag' = [HeapBag EXCEPT ![val] = @ - 1]
                                    /\ top' = val
         \/ HeapBag' = HeapBag /\ top' = top
<1>0. /\ iSize \in Nat /\ Heap!iCapacity \in Nat /\ iSize <= Heap!iCapacity /\ at \in Nat
      /\ \A val \in HeapValues : HeapBag[val] = Count(pContent, iSize, val) /\ HeapBag[val] \in Nat
  BY HeapNumbers, CountLast DEF HeapInv, HeapBag
<1>1. ASSUME NEW x \in 0 .. iSize - 1, NEW y \in 0 .. iSize - 1, pContent' = Heap!myswap(x, y), x # y,
             iSize' = iSize
      PROVE  HeapBag' = HeapBag
  <2>1. /\ pContent'[x] = pContent[y] /\ pContent'[y] = pContent[x]
        /\ \A z \in 0 .. Heap!iCapacity - 1 : z \notin {x, y} => pContent'[z] = pContent[z]
    BY <1>1, SwapFacts, Zenon DEF HeapInv
  <2>2. \A z \in 0 .. iSize - 1 : z \notin {x, y} => pContent'[z] = pContent[z]
    BY <2>1, <1>0
  <2>3. ASSUME NEW val \in HeapValues
        PROVE  Count(pContent', iSize, val) = Count(pContent, iSize, val)
    <3>1. iSize \in Nat /\ x # y
      BY <1>0, <1>1
    <3>2. Crossed(iSize, pContent, pContent', x, y)
      BY <2>1, <2>2, Zenon DEF Crossed
    <3>. QED BY <3>1, <3>2, CountSwapped
  <2>. QED BY <2>3, <1>1 DEF HeapBag
<1>2. ASSUME NEW value \in HeapValues, Heap!addItem(value)
      PROVE  HeapBag' = [HeapBag EXCEPT ![value] = @ + 1] /\ top' = top
  <2>1. /\ pContent' = [Heap!reserver EXCEPT ![iSize] = value] /\ iSize' = iSize + 1 /\ top' = top
    BY <1>2 DEF Heap!addItem
  <2>2. pContent'[iSize] = value /\ \A x \in 0 .. iSize - 1 : pContent'[x] = pContent[x]
    BY <1>2, AddedFacts
  <2>3. ASSUME NEW val \in HeapValues
        PROVE  Count(pContent', iSize + 1, val) = Count(pContent, iSize, val) + (IF value = val THEN 1 ELSE 0)
    <3>1. Count(pContent', iSize, val) = Count(pContent, iSize, val)
      <4>1. Agree(iSize, pContent, pContent')
        BY <2>2, Zenon DEF Agree
      <4>. QED BY <4>1, CountAgrees
    <3>2. Count(pContent', iSize + 1, val) = Count(pContent', iSize, val) + (IF pContent'[iSize] = val THEN 1 ELSE 0)
      BY <1>0, CountLast
    <3>. QED BY <3>1, <3>2, <2>2
  <2>4. \A val \in HeapValues : Count(pContent', iSize + 1, val) = IF val = value THEN HeapBag[val] + 1 ELSE HeapBag[val]
    BY <2>3, <1>0
  <2>5. HeapBag' = [val \in HeapValues |-> Count(pContent', iSize + 1, val)]
    BY <2>1 DEF HeapBag
  <2>6. HeapBag' = [val \in HeapValues |-> IF val = value THEN HeapBag[val] + 1 ELSE HeapBag[val]]
    BY <2>4, <2>5
  <2>7. HeapBag = [val \in HeapValues |-> HeapBag[val]]
    BY DEF HeapBag
  <2>. QED BY <2>1, <2>6, <2>7
<1>3. ASSUME Heap!topItem
      PROVE  \E val \in HeapValues : /\ HeapBag[val] > 0
                                     /\ \A w \in HeapValues : HeapBag[w] > 0 => val <= w
                                     /\ HeapBag' = [HeapBag EXCEPT ![val] = @ - 1]
                                     /\ top' = val
  <2>1. /\ pc2 = "idle" /\ iSize > 0 /\ top' = pContent[0] /\ iSize' = iSize - 1
        /\ pContent' = [pContent EXCEPT ![0] = pContent[iSize - 1]]
    BY <1>3 DEF Heap!topItem
  <2>2. PICK n \in Nat : iSize = n + 1 /\ iSize - 1 = n
    BY <2>1, <1>0, iSize - 1 \in Nat
  <2>3. /\ 0 \in DOMAIN pContent /\ 0 \in 0 .. iSize - 1 /\ n \in 0 .. iSize - 1
        /\ 0 .. n - 1 \subseteq DOMAIN pContent
    BY <1>0, <2>2, HeapNumbers DEF HeapInv
  <2>4. pContent'[0] = pContent[n] /\ \A z \in 0 .. n - 1 : z # 0 => pContent'[z] = pContent[z]
    BY <2>1, <2>2, <2>3
  <2>. DEFINE first == pContent[0]
  <2>5. first \in HeapValues
    BY <2>3 DEF HeapInv, HeapTypes
  <2>6. \A val \in HeapValues : Count(pContent, n + 1, val) = Count(pContent', n, val) + (IF first = val THEN 1 ELSE 0)
    BY <2>4, CountTaken
  <2>7. \A val \in HeapValues : Count(pContent', n, val) \in Nat
    BY CountLast
  <2>8. HeapBag' = [val \in HeapValues |-> Count(pContent', n, val)]
    BY <2>1, <2>2 DEF HeapBag
  <2>9. \A val \in HeapValues : Count(pContent', n, val) = IF val = first THEN HeapBag[val] - 1 ELSE HeapBag[val]
    BY <2>6, <2>7, <2>2, <1>0
  <2>10. HeapBag[first] > 0
    BY <2>5, <2>6, <2>7, <2>2, <1>0
  <2>11. ASSUME NEW w \in HeapValues, HeapBag[w] > 0 PROVE first <= w
    <3>1. Count(pContent, iSize, w) # 0
      BY <1>0, <2>11
    <3>2. Spots(pContent, iSize, w) # {}
      BY <3>1, FS_EmptySet DEF Count
    <3>3. PICK x \in 0 .. iSize - 1 : pContent[x] = w
      BY <3>2 DEF Spots
    <3>. QED BY <3>3, <2>1, RootIsLeast
  <2>12. HeapBag' = [val \in HeapValues |-> IF val = first THEN HeapBag[val] - 1 ELSE HeapBag[val]]
    BY <2>8, <2>9
  <2>13. HeapBag = [val \in HeapValues |-> HeapBag[val]]
    BY DEF HeapBag
  <2>14. HeapBag' = [HeapBag EXCEPT ![first] = @ - 1]
    BY <2>12, <2>13
  <2>. QED BY <2>1, <2>5, <2>10, <2>11, <2>14
<1>4. ASSUME Heap!SiftUp PROVE HeapBag' = HeapBag /\ top' = top
  <2>1. /\ pc2 = "up" /\ at # 0 /\ iSize' = iSize /\ top' = top
        /\ pContent' = IF pContent[at] < pContent[Heap!Parent(at)] THEN Heap!myswap(at, Heap!Parent(at)) ELSE pContent
    BY <1>4 DEF Heap!SiftUp
  <2>2. at \in Nat \ {0} /\ at < iSize
    BY <2>1, <1>0 DEF HeapInv, HeapTypes
  <2>3. Heap!Parent(at) \in Nat /\ Heap!Parent(at) < at
    BY <2>2, ParentFacts
  <2>4. at \in 0 .. iSize - 1 /\ Heap!Parent(at) \in 0 .. iSize - 1 /\ at # Heap!Parent(at)
    BY <2>2, <2>3, <1>0
  <2>5. CASE pContent[at] < pContent[Heap!Parent(at)]
    BY <2>1, <2>4, <2>5, <1>1
  <2>6. CASE ~ (pContent[at] < pContent[Heap!Parent(at)])
    BY <2>1, <2>6 DEF HeapBag
  <2>. QED BY <2>1, <2>5, <2>6
<1>5. ASSUME Heap!refactor PROVE HeapBag' = HeapBag /\ top' = top
  <2>1. /\ pc2 = "down" /\ iSize' = iSize /\ top' = top
        /\ IF Heap!Small(at) # at THEN pContent' = Heap!myswap(Heap!Small(at), at) ELSE pContent' = pContent
    BY <1>5 DEF Heap!refactor
  <2>2. CASE Heap!Small(at) # at
    <3>1. Heap!Small(at) \in 1 .. iSize - 1 /\ Heap!Parent(Heap!Small(at)) = at
      BY <2>1, <2>2, SmallFacts
    <3>2. Heap!Small(at) \in Nat \ {0} /\ Heap!Small(at) < iSize
      BY <3>1, <1>0
    <3>3. at < Heap!Small(at)
      BY <3>1, <3>2, ParentFacts
    <3>4. Heap!Small(at) \in 0 .. iSize - 1 /\ at \in 0 .. iSize - 1
      BY <3>2, <3>3, <1>0
    <3>. QED BY <2>1, <2>2, <3>4, <1>1
  <2>3. CASE Heap!Small(at) = at
    BY <2>1, <2>3 DEF HeapBag
  <2>. QED BY <2>1, <2>2, <2>3
<1>6. CASE Heap!Added \/ UNCHANGED Heap!vars
  BY <1>6 DEF Heap!Added, Heap!vars, HeapBag
<1>. QED BY <1>2, <1>3, <1>4, <1>5, <1>6 DEF Heap!Next

\* The heap of minHeap.h implements a bag from which the smallest value is taken, for
\* every set of values and any number of them: nothing is lost or doubled when the
\* array grows, and the value that topItem leaves behind the last slot is never taken
\* for a child.
THEOREM HeapIsBag == Heap!Spec => HeapIsQueue
<1>1. Heap!Init => Heap!Queue!Init
  <2>. SUFFICES ASSUME Heap!Init PROVE Heap!Queue!Init
    OBVIOUS
  <2>1. iSize = 0 /\ top = -1
    BY DEF Heap!Init
  <2>2. Heap!Slots = {}
    BY <2>1 DEF Heap!Slots
  <2>3. \A val \in HeapValues : Heap!Cardinality({x \in Heap!Slots : pContent[x] = val}) = 0
    <3>1. \A val : {x \in Heap!Slots : pContent[x] = val} = {}
      BY <2>2
    <3>. QED BY <3>1, FS_EmptySet, SameHeapCardinality
  <2>. QED BY <2>1, <2>3 DEF Heap!Queue!Init
<1>2. HeapInv /\ [Heap!Next]_(Heap!vars) => [Heap!Queue!Next]_(Heap!Queue!vars)
  BY BagStep, BagIs DEF Heap!Queue!Next, Heap!Queue!Add, Heap!Queue!Take, Heap!Queue!vars
<1>3. Heap!Spec => []HeapInv
  BY HeapInit, HeapStep, PTL DEF Heap!Spec
<1>. QED BY <1>1, <1>2, <1>3, PTL DEF Heap!Spec, HeapIsQueue, Heap!ImplementsQueue, Heap!Queue!Spec

----------------------------------------------------------------------------
(***************************************************************************)
(* CHash, for every number of indexes, buckets and keys and every hash     *)
(* function.  The map of an index is what its buckets hold, each key in    *)
(* the bucket of its code (HashTypes), so that a key is in one bucket at   *)
(* most and CHOOSE in Dict has no choice (MapIs).                          *)
(***************************************************************************)


\* The buckets of an index, and the arrays of indexes.
HashIndexes == {ix \in [Hash!Buckets -> Hash!Bucket] :
                  \A b \in Hash!Buckets : \A key \in DOMAIN ix[b] : Hash!hashVal(key) = b}
HashArrays(n) == [0 .. n - 1 -> HashIndexes \cup {Nil}]

HashTypes == \E n \in 0 .. MaxIndex + 1 : m_HashIndex \in HashArrays(n)

\* The map that an index stands for, and that of entry x of an array.
MapOf(ix) == [key \in Hash!KeysOf(ix) |-> ix[Hash!hashVal(key)][key]]
DictOf(a, x) == IF x \in DOMAIN a /\ a[x] # Nil THEN MapOf(a[x]) ELSE Nil

\* What the assumption says of the table.
LEMMA HashConstants ==
  /\ MaxIndex \in Nat /\ m_Size \in Nat \ {0} /\ Keys \subseteq Nat
  /\ \A key \in Keys : Hash!hashVal(key) \in Hash!Buckets
  /\ Nil \notin Hash!Bucket /\ Nil \notin [Hash!Buckets -> Hash!Bucket] /\ END \notin Keys
<1>1. /\ MaxIndex \in Nat /\ m_Size \in Nat \ {0} /\ Keys \subseteq Nat
      /\ \A key \in Keys : HashCode(key) \in Nat
      /\ Nil \notin Hash!Bucket /\ Nil \notin [Hash!Buckets -> Hash!Bucket] /\ END \notin Keys
  BY SequentialAssumption DEF Hash!CHashAssumption
<1>2. \A key \in Keys : HashCode(key) % m_Size \in 0 .. m_Size - 1
  BY <1>1
<1>. QED BY <1>1, <1>2 DEF Hash!hashVal, Hash!Buckets

\* The cardinality of the instance is that of the module.
LEMMA SameHashCardinality == \A S : Hash!Cardinality(S) = Cardinality(S)
  BY Zenon DEF Hash!Cardinality, Cardinality, Hash!IsFiniteSet, IsFiniteSet

\* A bucket maps some keys to values.
LEMMA BucketIs ==
  ASSUME NEW h
  PROVE  h \in Hash!Bucket <=> /\ DOMAIN h \subseteq Keys /\ h = [key \in DOMAIN h |-> h[key]]
                               /\ \A key \in DOMAIN h : h[key] \in HashVals
<1>1. ASSUME h \in Hash!Bucket
      PROVE  /\ DOMAIN h \subseteq Keys /\ h = [key \in DOMAIN h |-> h[key]]
             /\ \A key \in DOMAIN h : h[key] \in HashVals
  <2>1. PICK S \in SUBSET Keys : h \in [S -> HashVals]
    BY <1>1 DEF Hash!Bucket
  <2>. QED BY <2>1
<1>2. ASSUME DOMAIN h \subseteq Keys, h = [key \in DOMAIN h |-> h[key]], \A key \in DOMAIN h : h[key] \in HashVals
      PROVE  h \in Hash!Bucket
  <2>1. h \in [DOMAIN h -> HashVals]
    BY <1>2
  <2>. QED BY <1>2, <2>1 DEF Hash!Bucket
<1>. QED BY <1>1, <1>2

\* The buckets of an index: a key that is in one is in that of its code.
LEMMA IndexIs ==
  ASSUME NEW ix \in HashIndexes
  PROVE  /\ ix # Nil /\ DOMAIN ix = Hash!Buckets /\ ix = [b \in Hash!Buckets |-> ix[b]]
         /\ \A b \in Hash!Buckets : ix[b] \in Hash!Bucket
         /\ \A b \in Hash!Buckets : \A key \in DOMAIN ix[b] : key \in Keys /\ Hash!hashVal(key) = b
         /\ \A key : key \in Hash!KeysOf(ix) <=> key \in Keys /\ key \in DOMAIN ix[Hash!hashVal(key)]
<1>1. /\ ix \in [Hash!Buckets -> Hash!Bucket]
      /\ \A b \in Hash!Buckets : \A key \in DOMAIN ix[b] : Hash!hashVal(key) = b
  BY DEF HashIndexes
<1>2. \A b \in Hash!Buckets : ix[b] \in Hash!Bucket
  BY <1>1
<1>3. \A b \in Hash!Buckets : \A key \in DOMAIN ix[b] : key \in Keys
  BY <1>2, BucketIs
<1>4. \A key : key \in Hash!KeysOf(ix) <=> \E b \in Hash!Buckets : key \in DOMAIN ix[b]
  BY DEF Hash!KeysOf
<1>5. \A key : key \in Hash!KeysOf(ix) <=> key \in Keys /\ key \in DOMAIN ix[Hash!hashVal(key)]
  BY <1>1, <1>3, <1>4, HashConstants
<1>6. ix # Nil
  BY <1>1, HashConstants
<1>7. DOMAIN ix = Hash!Buckets /\ ix = [b \in Hash!Buckets |-> ix[b]]
  BY <1>1
<1>. QED BY <1>1, <1>2, <1>3, <1>5, <1>6, <1>7

\* Its map.
LEMMA MapIs ==
  ASSUME NEW ix \in HashIndexes
  PROVE  /\ MapOf(ix) # Nil /\ DOMAIN MapOf(ix) = Hash!KeysOf(ix)
         /\ MapOf(ix) = [key \in Hash!KeysOf(ix) |->
                           LET b == CHOOSE c \in Hash!Buckets : key \in DOMAIN ix[c] IN ix[b][key]]
<1>1. ASSUME NEW key \in Hash!KeysOf(ix)
      PROVE  (CHOOSE c \in Hash!Buckets : key \in DOMAIN ix[c]) = Hash!hashVal(key)
  <2>1. /\ Hash!hashVal(key) \in Hash!Buckets /\ key \in DOMAIN ix[Hash!hashVal(key)]
        /\ \A c \in Hash!Buckets : key \in DOMAIN ix[c] => c = Hash!hashVal(key)
    BY <1>1, IndexIs, HashConstants
  <2>. QED BY <2>1
<1>2. MapOf(ix) = [key \in Hash!KeysOf(ix) |->
                     LET b == CHOOSE c \in Hash!Buckets : key \in DOMAIN ix[c] IN ix[b][key]]
  BY <1>1 DEF MapOf
<1>3. DOMAIN MapOf(ix) = Hash!KeysOf(ix) /\ MapOf(ix) = [key \in Hash!KeysOf(ix) |-> MapOf(ix)[key]]
  BY DEF MapOf
<1>4. \A key \in Hash!KeysOf(ix) : MapOf(ix)[key] \in HashVals
  <2>1. ASSUME NEW key \in Hash!KeysOf(ix) PROVE MapOf(ix)[key] \in HashVals
    <3>1. /\ Hash!hashVal(key) \in Hash!Buckets /\ key \in DOMAIN ix[Hash!hashVal(key)]
          /\ ix[Hash!hashVal(key)] \in Hash!Bucket
      BY <2>1, IndexIs, HashConstants
    <3>2. ix[Hash!hashVal(key)][key] \in HashVals
      BY <3>1, BucketIs
    <3>. QED BY <3>2 DEF MapOf
  <2>. QED BY <2>1
<1>5. Hash!KeysOf(ix) \subseteq Keys
  BY IndexIs
<1>6. MapOf(ix) \in Hash!Bucket
  BY <1>3, <1>4, <1>5, BucketIs
<1>. QED BY <1>2, <1>3, <1>6, HashConstants

\* What the refinement mapping reads off an array.
LEMMA ArrayIs ==
  ASSUME NEW n \in 0 .. MaxIndex + 1, NEW a \in HashArrays(n), NEW x \in Hash!Indexes
  PROVE  /\ Hash!Cardinality(DOMAIN a) = n /\ DOMAIN a = 0 .. n - 1
         /\ DictOf(a, x) = IF ~(x < Hash!Cardinality(DOMAIN a) /\ a[x] # Nil) THEN Nil
                           ELSE [key \in Hash!KeysOf(a[x]) |->
                                   LET b == CHOOSE c \in Hash!Buckets : key \in DOMAIN a[x][c] IN a[x][b][key]]
         /\ DictOf(a, x) = Nil <=> ~(x < n /\ a[x] # Nil)
<1>1. DOMAIN a = 0 .. n - 1 /\ n \in Nat /\ x \in Nat
  BY HashConstants DEF HashArrays, Hash!Indexes
<1>2. Hash!Cardinality(DOMAIN a) = n
  <2>1. Cardinality(0 .. n - 1) = n
    <3>1. 0 \in Int /\ n - 1 \in Int
      BY <1>1
    <3>2. Cardinality(0 .. n - 1) = IF 0 > n - 1 THEN 0 ELSE (n - 1) - 0 + 1
      BY <3>1, FS_Interval
    <3>. QED BY <1>1, <3>2
  <2>. QED BY <1>1, <2>1, SameHashCardinality
<1>3. x < n <=> x \in DOMAIN a
  BY <1>1
<1>4. x \in DOMAIN a => a[x] \in HashIndexes \cup {Nil}
  BY <1>1 DEF HashArrays
<1>5. CASE x \in DOMAIN a /\ a[x] # Nil
  <2>1. a[x] \in HashIndexes
    BY <1>4, <1>5
  <2>. QED BY <1>1, <1>2, <1>3, <1>5, <2>1, MapIs DEF DictOf
<1>6. CASE ~(x \in DOMAIN a /\ a[x] # Nil)
  BY <1>1, <1>2, <1>3, <1>6 DEF DictOf
<1>. QED BY <1>5, <1>6

\* An index with nothing in it.
LEMMA NewIndexIs == /\ Hash!NewIndex \in HashIndexes /\ MapOf(Hash!NewIndex) = [key \in {} |-> Nil]
<1>1. Hash!Empty \in Hash!Bucket /\ DOMAIN Hash!Empty = {}
  BY BucketIs DEF Hash!Empty
<1>2. Hash!NewIndex \in [Hash!Buckets -> Hash!Bucket] /\ \A b \in Hash!Buckets : Hash!NewIndex[b] = Hash!Empty
  BY <1>1 DEF Hash!NewIndex
<1>3. Hash!NewIndex \in HashIndexes
  BY <1>1, <1>2 DEF HashIndexes
<1>4. Hash!KeysOf(Hash!NewIndex) = {}
  BY <1>1, <1>2 DEF Hash!KeysOf
<1>5. MapOf(Hash!NewIndex) = [key \in {} |-> Nil]
  BY <1>4 DEF MapOf
<1>. QED BY <1>3, <1>5

\* An index with a key more, if it was not there.
With(ix, key, val) == [ix EXCEPT ![Hash!hashVal(key)] = Hash!Put(@, key, val)]

\* The table with one element changed.
LEMMA WithIs ==
  ASSUME NEW ix \in HashIndexes, NEW key \in Keys, NEW val \in HashVals
  PROVE  /\ With(ix, key, val) \in HashIndexes
         /\ DOMAIN MapOf(With(ix, key, val)) = DOMAIN MapOf(ix) \cup {key}
         /\ \A y \in DOMAIN MapOf(ix) : MapOf(With(ix, key, val))[y] = MapOf(ix)[y]
         /\ key \notin DOMAIN MapOf(ix) => MapOf(With(ix, key, val))[key] = val
         /\ \A b \in Hash!Buckets : DOMAIN ix[b] \subseteq DOMAIN With(ix, key, val)[b]
<1>. DEFINE c == Hash!hashVal(key)
            old == ix[c]
            new == Hash!Put(old, key, val)
            iy == With(ix, key, val)
<1>1. c \in Hash!Buckets /\ ix[c] \in Hash!Bucket
  BY IndexIs, HashConstants
<1>2. /\ DOMAIN new = DOMAIN old \cup {key} /\ new[key] = (IF key \in DOMAIN old THEN old[key] ELSE val)
      /\ \A x \in DOMAIN old : new[x] = old[x]
      /\ new = [x \in DOMAIN new |-> new[x]]
  BY DEF Hash!Put
<1>3. /\ DOMAIN old \subseteq Keys /\ \A x \in DOMAIN old : old[x] \in HashVals
  BY <1>1, BucketIs
<1>4. DOMAIN new \subseteq Keys /\ \A x \in DOMAIN new : new[x] \in HashVals
  BY <1>2, <1>3
<1>. HIDE DEF new
<1>5. new \in Hash!Bucket
  BY <1>2, <1>4, BucketIs
<1>6. /\ DOMAIN iy = Hash!Buckets /\ iy[c] = new /\ \A b \in Hash!Buckets : b # c => iy[b] = ix[b]
      /\ iy \in [Hash!Buckets -> Hash!Bucket]
  <2>1. ix \in [Hash!Buckets -> Hash!Bucket]
    BY DEF HashIndexes
  <2>2. iy = [ix EXCEPT ![c] = new]
    BY DEF With, new
  <2>. HIDE DEF iy, c
  <2>. QED BY <2>1, <2>2, <1>1, <1>5
<1>. HIDE DEF iy
<1>7. \A b \in Hash!Buckets : \A x \in DOMAIN iy[b] : Hash!hashVal(x) = b
  BY <1>2, <1>6, IndexIs
<1>8. iy \in HashIndexes
  BY <1>6, <1>7 DEF HashIndexes
<1>9. \A b \in Hash!Buckets : DOMAIN ix[b] \subseteq DOMAIN iy[b]
  BY <1>2, <1>6
<1>10. Hash!KeysOf(iy) = Hash!KeysOf(ix) \cup {key}
  <2>1. ASSUME NEW x \in Keys PROVE x \in Hash!KeysOf(iy) <=> x \in Hash!KeysOf(ix) \cup {key}
    <3>0. Hash!hashVal(x) \in Hash!Buckets
      BY HashConstants
    <3>1. x \in Hash!KeysOf(iy) <=> x \in DOMAIN iy[Hash!hashVal(x)]
      BY <1>8, IndexIs
    <3>2. x \in Hash!KeysOf(ix) <=> x \in DOMAIN ix[Hash!hashVal(x)]
      BY IndexIs
    <3>. QED BY <1>2, <1>6, <3>0, <3>1, <3>2
  <2>2. Hash!KeysOf(iy) \subseteq Keys /\ Hash!KeysOf(ix) \subseteq Keys
    BY <1>8, IndexIs
  <2>. QED BY <2>1, <2>2
<1>11. DOMAIN MapOf(ix) = Hash!KeysOf(ix)
  BY DEF MapOf
<1>12. ASSUME NEW x \in Hash!KeysOf(iy)
       PROVE  iy[Hash!hashVal(x)][x] = IF x \in Hash!KeysOf(ix) THEN MapOf(ix)[x] ELSE val
  <2>0. Hash!hashVal(x) \in Hash!Buckets /\ x \in Keys
    BY <1>8, <1>12, IndexIs, HashConstants
  <2>1. x \in Hash!KeysOf(ix) <=> x \in DOMAIN ix[Hash!hashVal(x)]
    BY <2>0, IndexIs
  <2>2. CASE x \in Hash!KeysOf(ix)
    <3>1. MapOf(ix)[x] = ix[Hash!hashVal(x)][x]
      BY <2>2 DEF MapOf
    <3>. QED BY <1>2, <1>6, <2>0, <2>1, <2>2, <3>1
  <2>3. CASE x \notin Hash!KeysOf(ix)
    BY <1>2, <1>6, <1>10, <1>12, <2>1, <2>3
  <2>. QED BY <2>2, <2>3
<1>13. DOMAIN MapOf(iy) = Hash!KeysOf(iy) /\ \A y \in Hash!KeysOf(iy) : MapOf(iy)[y] = iy[Hash!hashVal(y)][y]
  BY DEF MapOf
<1>14. /\ DOMAIN MapOf(iy) = DOMAIN MapOf(ix) \cup {key}
       /\ \A y \in DOMAIN MapOf(ix) : MapOf(iy)[y] = MapOf(ix)[y]
       /\ key \notin DOMAIN MapOf(ix) => MapOf(iy)[key] = val
  BY <1>10, <1>11, <1>12, <1>13
<1>. QED BY <1>8, <1>9, <1>14 DEF iy

\* An empty table represents the empty map.
LEMMA HashInit == Hash!Init => HashTypes /\ cursor = Nil /\ m_HashIndex = [x \in {} |-> Nil]
<1>1. 0 \in 0 .. MaxIndex + 1 /\ 0 .. 0 - 1 = {}
  BY HashConstants
<1>. QED BY <1>1 DEF Hash!Init, Hash!Empty, HashTypes, HashArrays

\* BuildIndex: entry x is new, and the others are as they were.
LEMMA BuildIs ==
  ASSUME HashTypes, NEW x \in Hash!Indexes, Hash!BuildIndex(x), DictOf(m_HashIndex, x) = Nil
  PROVE  /\ HashTypes' /\ x \in DOMAIN m_HashIndex' /\ m_HashIndex'[x] = Hash!NewIndex
         /\ \A y \in DOMAIN m_HashIndex : y \in DOMAIN m_HashIndex' /\ (y # x => m_HashIndex'[y] = m_HashIndex[y])
         /\ \A y \in DOMAIN m_HashIndex' : y # x /\ y \notin DOMAIN m_HashIndex => m_HashIndex'[y] = Nil
         /\ res' = [code |-> "HASH_SUCCESS", val |-> Nil]
<1>1. PICK n \in 0 .. MaxIndex + 1 : m_HashIndex \in HashArrays(n)
  BY DEF HashTypes
<1>2. Hash!m_IndexCount = n /\ DOMAIN m_HashIndex = 0 .. n - 1 /\ n \in Nat /\ x \in 0 .. MaxIndex
      /\ ~Hash!Exists(x)
  BY <1>1, ArrayIs, HashConstants DEF Hash!m_IndexCount, Hash!Exists, Hash!Indexes
<1>3. /\ res' = [code |-> "HASH_SUCCESS", val |-> Nil]
      /\ m_HashIndex' = [(IF n <= x THEN Hash!Grown(x) ELSE m_HashIndex) EXCEPT ![x] = Hash!NewIndex]
  BY <1>2 DEF Hash!BuildIndex, Hash!Returns
<1>4. CASE n <= x
  <2>1. Hash!Grown(x) = [y \in 0 .. x |-> IF y < n THEN m_HashIndex[y] ELSE Nil]
    BY <1>2 DEF Hash!Grown
  <2>2. /\ DOMAIN m_HashIndex' = 0 .. x /\ m_HashIndex'[x] = Hash!NewIndex
        /\ \A y \in 0 .. x : y # x => m_HashIndex'[y] = (IF y < n THEN m_HashIndex[y] ELSE Nil)
        /\ m_HashIndex' = [y \in 0 .. x |-> m_HashIndex'[y]]
    <3>. DEFINE grown == [y \in 0 .. x |-> IF y < n THEN m_HashIndex[y] ELSE Nil]
                new == [y \in 0 .. x |-> IF y = x THEN Hash!NewIndex ELSE grown[y]]
    <3>1. m_HashIndex' = [grown EXCEPT ![x] = Hash!NewIndex]
      BY <1>3, <1>4, <2>1
    <3>2. [grown EXCEPT ![x] = Hash!NewIndex] = new
      OBVIOUS
    <3>3. /\ DOMAIN new = 0 .. x /\ new[x] = Hash!NewIndex /\ new = [y \in 0 .. x |-> new[y]]
          /\ \A y \in 0 .. x : y # x => new[y] = (IF y < n THEN m_HashIndex[y] ELSE Nil)
      BY <1>2
    <3>. HIDE DEF new, grown
    <3>4. m_HashIndex' = new
      BY <3>1, <3>2
    <3>. QED BY <3>3, <3>4
  <2>3. \A y \in 0 .. x : m_HashIndex'[y] \in HashIndexes \cup {Nil}
    BY <1>1, <1>2, <2>2, NewIndexIs DEF HashArrays
  <2>4. (x + 1) - 1 = x /\ x + 1 \in 0 .. MaxIndex + 1
    BY <1>2, HashConstants
  <2>5. m_HashIndex' \in [0 .. x -> HashIndexes \cup {Nil}]
    <3>1. Hash!Grown(x) \in [0 .. x -> HashIndexes \cup {Nil}]
      BY <1>1, <1>2, <2>1 DEF HashArrays
    <3>2. m_HashIndex' = [Hash!Grown(x) EXCEPT ![x] = Hash!NewIndex]
      BY <1>3, <1>4
    <3>. QED BY <3>1, <3>2, NewIndexIs
  <2>6. m_HashIndex' \in HashArrays(x + 1)
    BY <2>4, <2>5 DEF HashArrays
  <2>7. HashTypes'
    BY <2>4, <2>6 DEF HashTypes
  <2>8. x \in 0 .. x /\ \A y \in DOMAIN m_HashIndex : y \in 0 .. x /\ y < n
    BY <1>2, <1>4
  <2>9. \A y \in 0 .. x : y \notin DOMAIN m_HashIndex => ~(y < n)
    BY <1>2
  <2>. QED BY <1>3, <2>2, <2>7, <2>8, <2>9
<1>5. CASE ~(n <= x)
  <2>1. m_HashIndex' = [m_HashIndex EXCEPT ![x] = Hash!NewIndex] /\ x \in DOMAIN m_HashIndex
    BY <1>2, <1>3, <1>5
  <2>2. m_HashIndex' \in HashArrays(n)
    BY <1>1, <2>1, NewIndexIs DEF HashArrays
  <2>3. /\ DOMAIN m_HashIndex' = DOMAIN m_HashIndex /\ m_HashIndex'[x] = Hash!NewIndex
        /\ \A y \in DOMAIN m_HashIndex : y # x => m_HashIndex'[y] = m_HashIndex[y]
    BY <2>1
  <2>4. HashTypes'
    BY <2>2 DEF HashTypes
  <2>. QED BY <1>3, <2>1, <2>3, <2>4
<1>. QED BY <1>4, <1>5

\* Insert: entry x has the key, and the others are as they were.
LEMMA InsertIs ==
  ASSUME HashTypes, NEW x \in Hash!Indexes, NEW key \in Keys, NEW val \in HashVals, Hash!Insert(x, key, val),
         DictOf(m_HashIndex, x) # Nil
  PROVE  /\ HashTypes' /\ DOMAIN m_HashIndex' = DOMAIN m_HashIndex
         /\ x \in DOMAIN m_HashIndex /\ m_HashIndex[x] \in HashIndexes
         /\ m_HashIndex'[x] = With(m_HashIndex[x], key, val)
         /\ \A y \in DOMAIN m_HashIndex : y # x => m_HashIndex'[y] = m_HashIndex[y]
         /\ res' = [code |-> "any", val |-> Nil]
<1>1. PICK n \in 0 .. MaxIndex + 1 : m_HashIndex \in HashArrays(n)
  BY DEF HashTypes
<1>2. Hash!Exists(x) /\ x \in DOMAIN m_HashIndex /\ m_HashIndex[x] # Nil
  BY <1>1, ArrayIs DEF Hash!m_IndexCount, Hash!Exists, DictOf
<1>3. /\ res' = [code |-> "any", val |-> Nil]
      /\ m_HashIndex' = [m_HashIndex EXCEPT ![x] = With(m_HashIndex[x], key, val)]
  BY <1>2 DEF Hash!Insert, Hash!Returns, With
<1>4. m_HashIndex[x] \in HashIndexes
  BY <1>1, <1>2 DEF HashArrays
<1>5. With(m_HashIndex[x], key, val) \in HashIndexes
  BY <1>4, WithIs
<1>6. m_HashIndex' \in HashArrays(n)
  BY <1>1, <1>3, <1>5 DEF HashArrays
<1>7. HashTypes'
  BY <1>6 DEF HashTypes
<1>. QED BY <1>2, <1>3, <1>4, <1>7

\* The calls that change no index.
LEMMA HashRests ==
  ASSUME HashTypes,
         \/ \E x \in Hash!Indexes : Hash!BuildIndex(x) /\ DictOf(m_HashIndex, x) # Nil
         \/ \E x \in Hash!Indexes, key \in Keys, val \in HashVals :
               Hash!Insert(x, key, val) /\ DictOf(m_HashIndex, x) = Nil
         \/ \E x \in Hash!Indexes, key \in Keys : Hash!Find(x, key)
         \/ Hash!Scan \/ Hash!NextItem \/ UNCHANGED Hash!vars
  PROVE  m_HashIndex' = m_HashIndex
<1>1. PICK n \in 0 .. MaxIndex + 1 : m_HashIndex \in HashArrays(n)
  BY DEF HashTypes
<1>2. \A x \in Hash!Indexes : Hash!Exists(x) <=> DictOf(m_HashIndex, x) # Nil
  BY <1>1, ArrayIs DEF Hash!m_IndexCount, Hash!Exists
<1>3. ASSUME NEW x \in Hash!Indexes, Hash!BuildIndex(x), DictOf(m_HashIndex, x) # Nil
      PROVE  m_HashIndex' = m_HashIndex
  BY <1>2, <1>3 DEF Hash!BuildIndex
<1>4. ASSUME NEW x \in Hash!Indexes, NEW key \in Keys, NEW val \in HashVals, Hash!Insert(x, key, val),
             DictOf(m_HashIndex, x) = Nil
      PROVE  m_HashIndex' = m_HashIndex
  BY <1>2, <1>4 DEF Hash!Insert
<1>5. ASSUME NEW x \in Hash!Indexes, NEW key \in Keys, Hash!Find(x, key)
      PROVE  m_HashIndex' = m_HashIndex
  BY <1>5 DEF Hash!Find
<1>6. CASE Hash!Scan \/ Hash!NextItem \/ UNCHANGED Hash!vars
  BY <1>6 DEF Hash!Scan, Hash!NextItem, Hash!vars
<1>. QED BY <1>3, <1>4, <1>5, <1>6

\* Every operation of the class does to the map what the abstract one does, or nothing.
LEMMA HashStep == HashTypes /\ [Hash!Next]_(Hash!vars) => HashTypes'
<1>. SUFFICES ASSUME HashTypes, [Hash!Next]_(Hash!vars) PROVE HashTypes'
  OBVIOUS
<1>1. CASE m_HashIndex' = m_HashIndex
  BY <1>1 DEF HashTypes
<1>2. CASE m_HashIndex' # m_HashIndex
  BY <1>2, HashRests, BuildIs, InsertIs DEF Hash!Next
<1>. QED BY <1>1, <1>2

\* The maps that KeyValueMap speaks of.
HashDicts == [x \in Hash!Indexes |-> DictOf(m_HashIndex, x)]

\* They are those of the refinement mapping.
LEMMA DictsAre ==
  /\ HashTypes => HashDicts = [x \in Hash!Indexes |-> Hash!Dict(x)]
  /\ HashTypes' => HashDicts' = [x \in Hash!Indexes |-> Hash!Dict(x)]'
<1>1. ASSUME HashTypes PROVE HashDicts = [x \in Hash!Indexes |-> Hash!Dict(x)]
  <2>1. PICK n \in 0 .. MaxIndex + 1 : m_HashIndex \in HashArrays(n)
    BY <1>1 DEF HashTypes
  <2>2. \A x \in Hash!Indexes : DictOf(m_HashIndex, x) = Hash!Dict(x)
    BY <2>1, ArrayIs DEF Hash!Dict, Hash!Exists, Hash!m_IndexCount
  <2>. QED BY <2>2 DEF HashDicts
<1>2. ASSUME HashTypes' PROVE HashDicts' = [x \in Hash!Indexes |-> Hash!Dict(x)]'
  <2>1. PICK n \in 0 .. MaxIndex + 1 : m_HashIndex' \in HashArrays(n)
    BY <1>2 DEF HashTypes
  <2>2. \A x \in Hash!Indexes : DictOf(m_HashIndex', x) = Hash!Dict(x)'
    BY <2>1, ArrayIs DEF Hash!Dict, Hash!Exists, Hash!m_IndexCount
  <2>. QED BY <2>2 DEF HashDicts
<1>. QED BY <1>1, <1>2

\* The operations of KeyValueMap on a number of maps.
NoVal(code) == [code |-> code, val |-> Nil]
Built(x) == \/ HashDicts[x] # Nil /\ res' = NoVal("HASH_INDEX_HAS_EXISTED") /\ HashDicts' = HashDicts
            \/ /\ HashDicts[x] = Nil /\ res' = NoVal("HASH_SUCCESS")
               /\ HashDicts' = [HashDicts EXCEPT ![x] = [key \in {} |-> Nil]]
Inserted(x, key, val) ==
    \/ res' = NoVal("HASH_INDEX_NOT_EXIST") /\ HashDicts[x] = Nil /\ HashDicts' = HashDicts
    \/ /\ res' = NoVal("any") /\ HashDicts[x] # Nil
       /\ HashDicts' = [HashDicts EXCEPT ![x] =
            [y \in DOMAIN HashDicts[x] \cup {key} |-> IF y \in DOMAIN HashDicts[x] THEN HashDicts[x][y] ELSE val]]
Found(x, key) ==
    /\ res' = IF HashDicts[x] = Nil THEN NoVal("HASH_INDEX_NOT_EXIST")
              ELSE IF key \in DOMAIN HashDicts[x] THEN [code |-> "HASH_SUCCESS", val |-> HashDicts[x][key]]
              ELSE NoVal("-1")
    /\ HashDicts' = HashDicts

\* A call of CHash is one of KeyValueMap, or leaves the maps and the result alone.
LEMMA DictStep ==
  ASSUME HashTypes, [Hash!Next]_(Hash!vars)
  PROVE  \/ \E x \in Hash!Indexes : Built(x)
         \/ \E x \in Hash!Indexes, key \in Keys : Found(x, key) \/ \E val \in HashVals : Inserted(x, key, val)
         \/ HashDicts' = HashDicts /\ res' = res
<1>0. PICK n \in 0 .. MaxIndex + 1 : m_HashIndex \in HashArrays(n)
  BY DEF HashTypes
<1>1. \A x \in Hash!Indexes : HashDicts[x] = DictOf(m_HashIndex, x) /\ (Hash!Exists(x) <=> HashDicts[x] # Nil)
  BY <1>0, ArrayIs DEF HashDicts, Hash!m_IndexCount, Hash!Exists
<1>2. m_HashIndex' = m_HashIndex => HashDicts' = HashDicts
  BY DEF HashDicts
<1>3. ASSUME NEW x \in Hash!Indexes, Hash!BuildIndex(x) PROVE Built(x)
  <2>1. CASE HashDicts[x] # Nil
    <3>1. m_HashIndex' = m_HashIndex
      BY <1>1, <1>3, <2>1, HashRests
    <3>2. res' = NoVal("HASH_INDEX_HAS_EXISTED")
      BY <1>1, <1>3, <2>1 DEF Hash!BuildIndex, Hash!Returns, NoVal
    <3>. QED BY <1>2, <2>1, <3>1, <3>2 DEF Built
  <2>2. CASE HashDicts[x] = Nil
    <3>1. /\ HashTypes' /\ x \in DOMAIN m_HashIndex' /\ m_HashIndex'[x] = Hash!NewIndex
          /\ \A y \in DOMAIN m_HashIndex : y \in DOMAIN m_HashIndex' /\ (y # x => m_HashIndex'[y] = m_HashIndex[y])
          /\ \A y \in DOMAIN m_HashIndex' : y # x /\ y \notin DOMAIN m_HashIndex => m_HashIndex'[y] = Nil
          /\ res' = NoVal("HASH_SUCCESS")
      BY <1>1, <1>3, <2>2, BuildIs DEF NoVal
    <3>2. DictOf(m_HashIndex', x) = [key \in {} |-> Nil]
      BY <3>1, NewIndexIs, IndexIs DEF DictOf
    <3>3. \A y \in Hash!Indexes : y # x => DictOf(m_HashIndex', y) = DictOf(m_HashIndex, y)
      BY <3>1 DEF DictOf
    <3>4. HashDicts' = [HashDicts EXCEPT ![x] = [key \in {} |-> Nil]]
      BY <3>2, <3>3 DEF HashDicts
    <3>. QED BY <2>2, <3>1, <3>4 DEF Built
  <2>. QED BY <2>1, <2>2
<1>4. ASSUME NEW x \in Hash!Indexes, NEW key \in Keys, NEW val \in HashVals, Hash!Insert(x, key, val)
      PROVE  Inserted(x, key, val)
  <2>1. CASE HashDicts[x] = Nil
    <3>1. m_HashIndex' = m_HashIndex
      BY <1>1, <1>4, <2>1, HashRests
    <3>2. res' = NoVal("HASH_INDEX_NOT_EXIST")
      BY <1>1, <1>4, <2>1 DEF Hash!Insert, Hash!Returns, NoVal
    <3>. QED BY <1>2, <2>1, <3>1, <3>2 DEF Inserted
  <2>2. CASE HashDicts[x] # Nil
    <3>1. /\ HashTypes' /\ DOMAIN m_HashIndex' = DOMAIN m_HashIndex
          /\ x \in DOMAIN m_HashIndex /\ m_HashIndex[x] \in HashIndexes
          /\ m_HashIndex'[x] = With(m_HashIndex[x], key, val)
          /\ \A y \in DOMAIN m_HashIndex : y # x => m_HashIndex'[y] = m_HashIndex[y]
          /\ res' = NoVal("any")
      BY <1>1, <1>4, <2>2, InsertIs DEF NoVal
    <3>2. HashDicts[x] = MapOf(m_HashIndex[x])
      BY <1>1, <2>2 DEF DictOf
    <3>3. With(m_HashIndex[x], key, val) \in HashIndexes
      BY <3>1, WithIs
    <3>4. DictOf(m_HashIndex', x) = MapOf(With(m_HashIndex[x], key, val))
      BY <3>1, <3>3, IndexIs DEF DictOf
    <3>5. DictOf(m_HashIndex', x) = [y \in DOMAIN HashDicts[x] \cup {key} |->
                                       IF y \in DOMAIN HashDicts[x] THEN HashDicts[x][y] ELSE val]
      <4>. DEFINE q == MapOf(m_HashIndex[x])
                  r == MapOf(With(m_HashIndex[x], key, val))
      <4>1. /\ DOMAIN r = DOMAIN q \cup {key} /\ \A y \in DOMAIN q : r[y] = q[y]
            /\ key \notin DOMAIN q => r[key] = val
        BY <3>1, WithIs
      <4>2. r = [y \in DOMAIN r |-> r[y]]
        BY DEF MapOf
      <4>. HIDE DEF q, r
      <4>3. r = [y \in DOMAIN q \cup {key} |-> IF y \in DOMAIN q THEN q[y] ELSE val]
        BY <4>1, <4>2
      <4>. QED BY <3>2, <3>4, <4>3 DEF q, r
    <3>6. \A y \in Hash!Indexes : y # x => DictOf(m_HashIndex', y) = DictOf(m_HashIndex, y)
      BY <3>1 DEF DictOf
    <3>7. HashDicts' = [HashDicts EXCEPT ![x] = DictOf(m_HashIndex', x)]
      BY <3>6 DEF HashDicts
    <3>. QED BY <2>2, <3>1, <3>5, <3>7 DEF Inserted
  <2>. QED BY <2>1, <2>2
<1>5. ASSUME NEW x \in Hash!Indexes, NEW key \in Keys, Hash!Find(x, key) PROVE Found(x, key)
  <2>1. m_HashIndex' = m_HashIndex
    BY <1>5, HashRests
  <2>2. CASE HashDicts[x] = Nil
    BY <1>1, <1>2, <1>5, <2>1, <2>2 DEF Hash!Find, Hash!Returns, Found, NoVal
  <2>3. CASE HashDicts[x] # Nil
    <3>1. HashDicts[x] = MapOf(m_HashIndex[x]) /\ x \in DOMAIN m_HashIndex /\ m_HashIndex[x] # Nil
      BY <1>1, <2>3 DEF DictOf
    <3>2. m_HashIndex[x] \in HashIndexes
      BY <1>0, <3>1 DEF HashArrays
    <3>3. key \in DOMAIN HashDicts[x] <=> key \in DOMAIN m_HashIndex[x][Hash!hashVal(key)]
      BY <3>1, <3>2, MapIs, IndexIs
    <3>4. key \in DOMAIN HashDicts[x] => HashDicts[x][key] = m_HashIndex[x][Hash!hashVal(key)][key]
      BY <3>1 DEF MapOf
    <3>5. res' = IF key \in DOMAIN m_HashIndex[x][Hash!hashVal(key)]
                 THEN [code |-> "HASH_SUCCESS", val |-> m_HashIndex[x][Hash!hashVal(key)][key]] ELSE NoVal("-1")
      BY <1>1, <1>5, <2>3 DEF Hash!Find, Hash!Returns, NoVal
    <3>. QED BY <1>2, <2>1, <2>3, <3>3, <3>4, <3>5 DEF Found
  <2>. QED BY <2>2, <2>3
<1>6. CASE Hash!Scan \/ Hash!NextItem \/ UNCHANGED Hash!vars
  <2>1. m_HashIndex' = m_HashIndex /\ res' = res
    BY <1>6 DEF Hash!Scan, Hash!NextItem, Hash!vars
  <2>. QED BY <1>2, <2>1
<1>. QED BY <1>3, <1>4, <1>5, <1>6 DEF Hash!Next

\* CHash implements its maps, for every hash function and every number of buckets,
\* keys and indexes: keys that meet in a bucket are kept apart, an index made later
\* leaves the others as they are, and Find gives what was first inserted.
THEOREM HashSound == Hash!Spec => HashIsMaps
<1>1. Hash!Init => Hash!Maps!Init
  <2>. SUFFICES ASSUME Hash!Init PROVE Hash!Maps!Init
    OBVIOUS
  <2>1. HashTypes /\ m_HashIndex = [x \in {} |-> Nil]
    BY HashInit
  <2>2. HashDicts = [x \in Hash!Indexes |-> Nil]
    BY <2>1 DEF HashDicts, DictOf
  <2>3. [x \in Hash!Indexes |-> Hash!Dict(x)] = [x \in Hash!Indexes |-> Nil]
    BY <2>1, <2>2, DictsAre
  <2>. QED BY <2>3 DEF Hash!Init, Hash!Maps!Init, Hash!Maps!NoValue
<1>2. HashTypes /\ [Hash!Next]_(Hash!vars) => [Hash!Maps!Next]_(Hash!Maps!vars)
  <2>. SUFFICES ASSUME HashTypes, [Hash!Next]_(Hash!vars) PROVE [Hash!Maps!Next]_(Hash!Maps!vars)
    OBVIOUS
  <2>1. /\ HashDicts = [x \in Hash!Indexes |-> Hash!Dict(x)]
        /\ HashDicts' = [x \in Hash!Indexes |-> Hash!Dict(x)]'
    BY HashStep, DictsAre
  <2>2. ASSUME NEW x \in Hash!Indexes, Built(x) PROVE Hash!Maps!Build(x)
    BY <2>1, <2>2 DEF Built, Hash!Maps!Build, Hash!Maps!NoValue, NoVal
  <2>3. ASSUME NEW x \in Hash!Indexes, NEW key \in Keys, Found(x, key) PROVE Hash!Maps!Find(x, key)
    BY <2>1, <2>3 DEF Found, Hash!Maps!Find, Hash!Maps!NoValue, NoVal
  <2>4. ASSUME NEW x \in Hash!Indexes, NEW key \in Keys, NEW val \in HashVals, Inserted(x, key, val)
        PROVE  Hash!Maps!Insert(x, key, val)
    BY <2>1, <2>4 DEF Inserted, Hash!Maps!Insert, Hash!Maps!NoValue, NoVal
  <2>5. CASE HashDicts' = HashDicts /\ res' = res
    BY <2>1, <2>5 DEF Hash!Maps!vars
  <2>. QED BY <2>2, <2>3, <2>4, <2>5, DictStep DEF Hash!Maps!Next
<1>3. Hash!Spec => []HashTypes
  BY HashInit, HashStep, PTL DEF Hash!Spec
<1>. QED BY <1>1, <1>2, <1>3, PTL DEF Hash!Spec, HashIsMaps, Hash!ImplementsMaps, Hash!Maps!Spec

----------------------------------------------------------------------------
(***************************************************************************)
(* A scan of CHash.  The keys seen are those the cursor has passed, though *)
(* not all of them: a key inserted behind the cursor is passed and not     *)
(* seen.  Those that were there when the scan began cannot be (ScanOK).    *)
(***************************************************************************)

\* Key is before cursor c in the order of buckets and keys.
Passed(c, key) == \/ Hash!hashVal(key) < c.m_SearchHashVal
                  \/ Hash!hashVal(key) = c.m_SearchHashVal /\ (c.iter = END \/ key < c.iter)

Cursors == [m_SearchHashVal : 0 .. m_Size, iter : Keys \cup {END}]

\* Cursor c in index ix, in a scan that began with the keys of w and has given q.
ScanOK(c, ix, w, q) ==
    /\ c \in Cursors
    /\ c.iter # END => c.m_SearchHashVal \in Hash!Buckets /\ c.iter \in DOMAIN ix[c.m_SearchHashVal]
    /\ w \subseteq Hash!KeysOf(ix)
    /\ \A x \in DOMAIN q : Passed(c, q[x])
    /\ \A key \in w : Passed(c, key) => \E x \in DOMAIN q : q[x] = key

SeenInv == /\ want \subseteq Keys /\ seen \in Seq(Keys)
           /\ \A x, y \in DOMAIN seen : seen[x] = seen[y] => x = y
CursorInv == cursor # Nil => /\ 0 \in DOMAIN m_HashIndex /\ m_HashIndex[0] \in HashIndexes
                             /\ ScanOK(cursor, m_HashIndex[0], want, seen)
ScanInv == HashTypes /\ SeenInv /\ CursorInv

\* The least key of a set.
LEMMA MinIs ==
  ASSUME NEW S \in SUBSET Nat, S # {}
  PROVE  Hash!Min(S) \in S /\ \A y \in S : Hash!Min(S) <= y
<1>1. \E x \in S : \A y \in S : x <= y
  BY LeastNat
<1>. QED BY <1>1 DEF Hash!Min

\* The least of a set of keys.
LEMMA FirstIs ==
  ASSUME NEW S \in SUBSET Keys
  PROVE  \/ S = {} /\ Hash!FirstOf(S) = END
         \/ Hash!FirstOf(S) \in S /\ Hash!FirstOf(S) # END /\ \A y \in S : Hash!FirstOf(S) <= y
<1>1. S \in SUBSET Nat /\ END \notin S
  BY HashConstants
<1>. QED BY <1>1, MinIs DEF Hash!FirstOf

\* A bucket that is not empty has a key.
LEMMA EmptyIs == \A h \in Hash!Bucket : h # Hash!Empty => DOMAIN h # {}
<1>. SUFFICES ASSUME NEW h \in Hash!Bucket, DOMAIN h = {} PROVE h = Hash!Empty
  OBVIOUS
<1>1. h = [key \in DOMAIN h |-> h[key]]
  BY BucketIs
<1>. QED BY <1>1 DEF Hash!Empty

\* The loop of Next moves the cursor on to the next key, or to the end.
LEMMA SettledIs ==
  ASSUME ScanInv, cursor # Nil
  PROVE  /\ ScanOK(Hash!Settled, m_HashIndex[0], want, seen)
         /\ Hash!Settled.iter # END \/ Hash!Settled.m_SearchHashVal = m_Size
         /\ \A x \in DOMAIN seen : seen[x] # Hash!Settled.iter
<1>. DEFINE ix == m_HashIndex[0]
            s == cursor.m_SearchHashVal
<1>0. /\ ix \in HashIndexes /\ ScanOK(cursor, ix, want, seen)
      /\ want \subseteq Keys /\ \A x \in DOMAIN seen : seen[x] \in Keys
  BY DEF ScanInv, CursorInv, SeenInv
<1>1. s \in 0 .. m_Size /\ cursor.iter \in Keys \cup {END} /\ m_Size \in Nat /\ END \notin Keys
      /\ Hash!Buckets = 0 .. m_Size - 1
  BY <1>0, HashConstants DEF ScanOK, Cursors, Hash!Buckets
<1>2. \A key \in Keys : key \in Nat /\ Hash!hashVal(key) \in 0 .. m_Size - 1
  BY HashConstants DEF Hash!Buckets
<1>3. CASE cursor.iter # END
  <2>1. Hash!Settled = cursor
    BY <1>3 DEF Hash!Settled
  <2>2. \A x \in DOMAIN seen : Passed(cursor, seen[x])
    BY <1>0 DEF ScanOK
  <2>3. Hash!hashVal(cursor.iter) = s
    BY <1>0, <1>3, IndexIs DEF ScanOK
  <2>4. ~Passed(cursor, cursor.iter)
    BY <1>1, <1>2, <1>3, <2>3 DEF Passed
  <2>. QED BY <1>0, <1>3, <2>1, <2>2, <2>4
<1>4. CASE cursor.iter = END
  <2>. DEFINE later == {b \in Hash!Buckets : b > s /\ ix[b] # Hash!Empty}
  <2>1. \A key \in want : Hash!hashVal(key) <= s \/ Hash!hashVal(key) \in later
    <3>. SUFFICES ASSUME NEW key \in want, ~(Hash!hashVal(key) <= s) PROVE Hash!hashVal(key) \in later
      OBVIOUS
    <3>1. key \in Keys /\ key \in Hash!KeysOf(ix)
      BY <1>0 DEF ScanOK
    <3>2. key \in DOMAIN ix[Hash!hashVal(key)] /\ Hash!hashVal(key) \in Hash!Buckets
      BY <1>0, <1>1, <1>2, <3>1, IndexIs
    <3>3. DOMAIN Hash!Empty = {}
      BY DEF Hash!Empty
    <3>4. Hash!hashVal(key) > s
      BY <1>1, <1>2, <3>1
    <3>. QED BY <3>2, <3>3, <3>4
  <2>2. \A key \in want : Hash!hashVal(key) <= s => \E x \in DOMAIN seen : seen[x] = key
    <3>. SUFFICES ASSUME NEW key \in want, Hash!hashVal(key) <= s PROVE Passed(cursor, key)
      BY <1>0 DEF ScanOK
    <3>1. Hash!hashVal(key) < s \/ Hash!hashVal(key) = s
      BY <1>0, <1>1, <1>2
    <3>. QED BY <1>4, <3>1 DEF Passed
  <2>3. \A x \in DOMAIN seen : Hash!hashVal(seen[x]) <= s
    <3>1. \A x \in DOMAIN seen : Passed(cursor, seen[x])
      BY <1>0 DEF ScanOK
    <3>. QED BY <1>0, <1>1, <1>2, <3>1 DEF Passed
  <2>4. CASE later = {}
    <3>. DEFINE c == [m_SearchHashVal |-> m_Size, iter |-> END]
    <3>1. Hash!Settled = c
      BY <1>4, <2>4 DEF Hash!Settled
    <3>2. c \in Cursors /\ c.iter = END /\ c.m_SearchHashVal = m_Size
      BY <1>1 DEF Cursors
    <3>. HIDE DEF c
    <3>3. \A x \in DOMAIN seen : Passed(c, seen[x])
      BY <1>0, <1>1, <1>2, <3>2 DEF Passed
    <3>4. \A key \in want : \E x \in DOMAIN seen : seen[x] = key
      BY <2>1, <2>2, <2>4
    <3>5. ScanOK(c, ix, want, seen)
      BY <1>0, <3>2, <3>3, <3>4 DEF ScanOK
    <3>. QED BY <1>0, <1>1, <3>1, <3>2, <3>5
  <2>5. CASE later # {}
    <3>. DEFINE b == Hash!Min(later)
                first == Hash!Min(DOMAIN ix[b])
                c == [m_SearchHashVal |-> b, iter |-> first]
    <3>1. Hash!Settled = c
      BY <1>4, <2>5 DEF Hash!Settled
    <3>2. later \in SUBSET Nat
      BY <1>1
    <3>3. b \in later /\ \A y \in later : b <= y
      BY <2>5, <3>2, MinIs
    <3>. HIDE DEF b
    <3>4. b \in 0 .. m_Size - 1 /\ b \in Hash!Buckets /\ b > s /\ ix[b] # Hash!Empty
      BY <1>1, <3>3
    <3>5. ix[b] \in Hash!Bucket /\ DOMAIN ix[b] \subseteq Keys
      BY <1>0, <3>4, IndexIs
    <3>6. DOMAIN ix[b] # {} /\ DOMAIN ix[b] \in SUBSET Nat
      BY <3>4, <3>5, EmptyIs, HashConstants
    <3>7. first \in DOMAIN ix[b] /\ \A y \in DOMAIN ix[b] : first <= y
      BY <3>6, MinIs
    <3>. HIDE DEF first
    <3>8. first \in Keys /\ first # END /\ Hash!hashVal(first) = b
      BY <1>0, <1>1, <3>4, <3>5, <3>7, IndexIs
    <3>9. c \in Cursors /\ c.iter = first /\ c.m_SearchHashVal = b
      BY <1>1, <3>4, <3>8 DEF Cursors
    <3>. HIDE DEF c
    <3>10. \A x \in DOMAIN seen : Passed(c, seen[x]) /\ seen[x] # first
      <4>1. \A x \in DOMAIN seen : Hash!hashVal(seen[x]) < b
        BY <1>0, <1>1, <1>2, <2>3, <3>4
      <4>. QED BY <3>4, <3>8, <3>9, <4>1 DEF Passed
    <3>11. ASSUME NEW key \in want, Passed(c, key) PROVE \E x \in DOMAIN seen : seen[x] = key
      <4>. SUFFICES ASSUME ~(Hash!hashVal(key) <= s) PROVE FALSE
        BY <2>2
      <4>1. key \in Keys /\ key \in Hash!KeysOf(ix) /\ Hash!hashVal(key) \in later
        BY <1>0, <2>1 DEF ScanOK
      <4>2. ~(Hash!hashVal(key) < b)
        BY <1>2, <3>3, <3>4, <4>1
      <4>3. Hash!hashVal(key) = b /\ key < first
        BY <3>8, <3>9, <3>11, <4>2, <1>1 DEF Passed
      <4>4. key \in DOMAIN ix[b]
        BY <1>0, <4>1, <4>3, IndexIs
      <4>. QED BY <1>2, <3>7, <3>8, <4>1, <4>3, <4>4
    <3>12. ScanOK(c, ix, want, seen)
      BY <1>0, <3>4, <3>7, <3>9, <3>10, <3>11 DEF ScanOK
    <3>. QED BY <3>1, <3>8, <3>9, <3>10, <3>12
  <2>. QED BY <2>4, <2>5
<1>. QED BY <1>3, <1>4

\* The key at the cursor is given.
LEMMA AdvanceIs ==
  ASSUME NEW ix \in HashIndexes, NEW c, NEW w, NEW q \in Seq(Keys), ScanOK(c, ix, w, q), c.iter # END,
         NEW d, d = [c EXCEPT !.iter = Hash!FirstOf({key \in DOMAIN ix[c.m_SearchHashVal] : key > c.iter})]
  PROVE  ScanOK(d, ix, w, Append(q, c.iter))
<1>. DEFINE b == c.m_SearchHashVal
            S == {key \in DOMAIN ix[b] : key > c.iter}
            new == Hash!FirstOf(S)
            r == Append(q, c.iter)
<1>1. /\ c \in Cursors /\ b \in Hash!Buckets /\ c.iter \in DOMAIN ix[b] /\ w \subseteq Hash!KeysOf(ix)
      /\ \A x \in DOMAIN q : Passed(c, q[x])
      /\ \A key \in w : Passed(c, key) => \E x \in DOMAIN q : q[x] = key
  BY DEF ScanOK
<1>2. DOMAIN ix[b] \subseteq Keys /\ Hash!hashVal(c.iter) = b /\ c.iter \in Keys
  BY <1>1, IndexIs
<1>3. S \in SUBSET Keys /\ (\A key \in Keys : key \in Nat /\ Hash!hashVal(key) \in 0 .. m_Size - 1)
      /\ b \in 0 .. m_Size - 1 /\ m_Size \in Nat /\ END \notin Keys
  BY <1>1, <1>2, HashConstants DEF Hash!Buckets
<1>4. \/ S = {} /\ new = END
      \/ new \in S /\ new # END /\ \A y \in S : new <= y
  BY <1>3, FirstIs
<1>. HIDE DEF new
<1>5. d \in Cursors /\ d.m_SearchHashVal = b /\ d.iter = new
  <2>1. new \in Keys \cup {END}
    BY <1>3, <1>4
  <2>2. d = [c EXCEPT !.iter = new]
    BY DEF new
  <2>. QED BY <1>1, <2>1, <2>2 DEF Cursors
<1>6. /\ DOMAIN r = DOMAIN q \cup {Len(q) + 1} /\ r[Len(q) + 1] = c.iter /\ \A x \in DOMAIN q : r[x] = q[x]
  BY <1>2
<1>7. ASSUME NEW key \in Keys, Passed(c, key) \/ key = c.iter PROVE Passed(d, key)
  <2>1. CASE Hash!hashVal(key) < b
    BY <1>5, <2>1 DEF Passed
  <2>2. CASE Hash!hashVal(key) = b /\ key <= c.iter
    <3>1. new # END => key < new
      BY <1>2, <1>3, <1>4, <2>2
    <3>. QED BY <1>5, <2>2, <3>1 DEF Passed
  <2>3. Hash!hashVal(key) < b \/ (Hash!hashVal(key) = b /\ key <= c.iter)
    BY <1>2, <1>3, <1>7 DEF Passed
  <2>. QED BY <2>1, <2>2, <2>3
<1>8. ASSUME NEW key \in w, Passed(d, key) PROVE Passed(c, key) \/ key = c.iter
  <2>1. key \in Keys /\ key \in Hash!KeysOf(ix)
    BY <1>1, IndexIs
  <2>2. CASE Hash!hashVal(key) < b
    BY <2>2 DEF Passed
  <2>3. CASE Hash!hashVal(key) = b /\ (new = END \/ key < new)
    <3>1. key \in DOMAIN ix[b]
      BY <2>1, <2>3, IndexIs
    <3>2. key \notin S
      BY <1>3, <1>4, <2>1, <2>3
    <3>3. ~(key > c.iter)
      BY <3>1, <3>2
    <3>4. key < c.iter \/ key = c.iter
      BY <1>2, <1>3, <2>1, <3>3
    <3>. QED BY <2>3, <3>4 DEF Passed
  <2>. QED BY <1>5, <1>8, <2>2, <2>3 DEF Passed
<1>. HIDE DEF r
<1>9. \A x \in DOMAIN r : Passed(d, r[x])
  <2>1. \A x \in DOMAIN q : q[x] \in Keys
    OBVIOUS
  <2>. QED BY <1>1, <1>2, <1>6, <1>7, <2>1
<1>10. \A key \in w : Passed(d, key) => \E x \in DOMAIN r : r[x] = key
  BY <1>1, <1>6, <1>8
<1>11. d.iter # END => d.m_SearchHashVal \in Hash!Buckets /\ d.iter \in DOMAIN ix[d.m_SearchHashVal]
  BY <1>1, <1>4, <1>5
<1>12. ScanOK(d, ix, w, r)
  BY <1>1, <1>5, <1>9, <1>10, <1>11 DEF ScanOK
<1>. QED BY <1>12 DEF r

\* Beginning a scan.
LEMMA ScanKeeps == ASSUME ScanInv, Hash!Scan PROVE ScanInv'
<1>0. PICK n \in 0 .. MaxIndex + 1 : m_HashIndex \in HashArrays(n)
  BY DEF ScanInv, HashTypes
<1>1. 0 \in Hash!Indexes
  BY HashConstants DEF Hash!Indexes
<1>2. 0 \in DOMAIN m_HashIndex /\ m_HashIndex[0] # Nil
  <2>1. 0 < n /\ m_HashIndex[0] # Nil
    BY <1>0, <1>1, ArrayIs DEF Hash!Scan, Hash!Exists, Hash!m_IndexCount
  <2>2. DOMAIN m_HashIndex = 0 .. n - 1
    BY <1>0, <1>1, ArrayIs
  <2>. QED BY <2>1, <2>2
<1>. DEFINE ix == m_HashIndex[0]
            c == [m_SearchHashVal |-> 0, iter |-> Hash!FirstOf(DOMAIN ix[0])]
<1>3. ix \in HashIndexes
  BY <1>0, <1>2 DEF HashArrays
<1>4. cursor' = c /\ want' = Hash!KeysOf(ix) /\ seen' = <<>> /\ m_HashIndex' = m_HashIndex
  BY DEF Hash!Scan
<1>5. 0 \in Hash!Buckets /\ m_Size \in Nat \ {0}
  BY HashConstants DEF Hash!Buckets
<1>6. DOMAIN ix[0] \subseteq Keys
  BY <1>3, <1>5, IndexIs
<1>. DEFINE first == Hash!FirstOf(DOMAIN ix[0])
<1>7. \/ DOMAIN ix[0] = {} /\ first = END
      \/ first \in DOMAIN ix[0] /\ first # END /\ \A y \in DOMAIN ix[0] : first <= y
  BY <1>6, FirstIs
<1>. HIDE DEF first
<1>8. c \in Cursors /\ c.m_SearchHashVal = 0 /\ c.iter = first
  <2>1. first \in Keys \cup {END} /\ 0 \in 0 .. m_Size
    BY <1>5, <1>6, <1>7
  <2>. QED BY <2>1 DEF Cursors, first
<1>. HIDE DEF c
<1>9. \A key \in Hash!KeysOf(ix) : ~Passed(c, key)
  <2>. SUFFICES ASSUME NEW key \in Hash!KeysOf(ix), Passed(c, key) PROVE FALSE
    OBVIOUS
  <2>1. key \in Keys /\ key \in DOMAIN ix[Hash!hashVal(key)]
    BY <1>3, IndexIs
  <2>2. Hash!hashVal(key) \in 0 .. m_Size - 1 /\ key \in Nat
    BY <2>1, HashConstants DEF Hash!Buckets
  <2>3. Hash!hashVal(key) = 0 /\ (first = END \/ key < first)
    BY <1>8, <2>2 DEF Passed
  <2>4. key \in DOMAIN ix[0]
    BY <2>1, <2>3
  <2>5. first \in Nat /\ first <= key /\ key < first
    BY <1>6, <1>7, <2>3, <2>4, HashConstants
  <2>. QED BY <2>2, <2>5
<1>10. ScanOK(c, ix, Hash!KeysOf(ix), <<>>)
  <2>1. c.iter # END => c.m_SearchHashVal \in Hash!Buckets /\ c.iter \in DOMAIN ix[c.m_SearchHashVal]
    BY <1>5, <1>7, <1>8
  <2>2. \A x \in DOMAIN <<>> : FALSE
    OBVIOUS
  <2>. QED BY <1>8, <1>9, <2>1, <2>2 DEF ScanOK
<1>11. HashTypes' /\ CursorInv'
  BY <1>2, <1>3, <1>4, <1>10 DEF ScanInv, HashTypes, CursorInv
<1>12. SeenInv'
  <2>1. Hash!KeysOf(ix) \subseteq Keys
    BY <1>3, IndexIs
  <2>. QED BY <1>4, <2>1 DEF SeenInv
<1>. QED BY <1>11, <1>12 DEF ScanInv

\* A step of the scan.
LEMMA NextKeeps == ASSUME ScanInv, Hash!NextItem PROVE ScanInv'
<1>. DEFINE c == Hash!Settled
            ix == m_HashIndex[0]
<1>1. cursor # Nil /\ m_HashIndex' = m_HashIndex /\ want' = want
  BY DEF Hash!NextItem
<1>2. /\ 0 \in DOMAIN m_HashIndex /\ ix \in HashIndexes /\ seen \in Seq(Keys) /\ want \subseteq Keys
      /\ \A x, y \in DOMAIN seen : seen[x] = seen[y] => x = y
  BY <1>1 DEF ScanInv, CursorInv, SeenInv
<1>3. /\ ScanOK(c, ix, want, seen)
      /\ c.iter # END \/ c.m_SearchHashVal = m_Size
      /\ \A x \in DOMAIN seen : seen[x] # c.iter
  BY <1>1, SettledIs
<1>4. IF c.m_SearchHashVal = m_Size THEN cursor' = c /\ seen' = seen
      ELSE /\ seen' = Append(seen, c.iter)
           /\ cursor' = [c EXCEPT !.iter = Hash!FirstOf({key \in DOMAIN ix[c.m_SearchHashVal] : key > c.iter})]
  BY DEF Hash!NextItem
<1>. HIDE DEF c
<1>5. CASE c.m_SearchHashVal = m_Size
  BY <1>1, <1>2, <1>3, <1>4, <1>5 DEF ScanInv, HashTypes, SeenInv, CursorInv
<1>6. CASE c.m_SearchHashVal # m_Size
  <2>1. c.iter # END /\ c.iter \in Keys
    BY <1>3, <1>6 DEF ScanOK, Cursors
  <2>2. ScanOK(cursor', ix, want, seen')
    BY <1>2, <1>3, <1>4, <1>6, <2>1, AdvanceIs
  <2>3. /\ seen' \in Seq(Keys) /\ DOMAIN seen' = DOMAIN seen \cup {Len(seen) + 1}
        /\ seen'[Len(seen) + 1] = c.iter /\ \A x \in DOMAIN seen : seen'[x] = seen[x]
    BY <1>2, <1>4, <1>6, <2>1
  <2>4. \A x, y \in DOMAIN seen' : seen'[x] = seen'[y] => x = y
    BY <1>2, <1>3, <2>3
  <2>5. SeenInv'
    BY <1>1, <1>2, <2>3, <2>4 DEF SeenInv
  <2>6. HashTypes' /\ CursorInv'
    BY <1>1, <1>2, <2>2 DEF ScanInv, HashTypes, CursorInv
  <2>. QED BY <2>5, <2>6 DEF ScanInv
<1>. QED BY <1>5, <1>6

\* Every step keeps what is known of a scan.
LEMMA ScanStep == ScanInv /\ [Hash!Next]_(Hash!vars) => ScanInv'
<1>. SUFFICES ASSUME ScanInv, [Hash!Next]_(Hash!vars) PROVE ScanInv'
  OBVIOUS
<1>0. HashTypes /\ HashTypes'
  BY HashStep DEF ScanInv
<1>1. CASE Hash!Scan \/ Hash!NextItem
  BY <1>1, ScanKeeps, NextKeeps
<1>2. CASE /\ cursor' = cursor /\ want' = want /\ seen' = seen
           /\ cursor # Nil => /\ 0 \in DOMAIN m_HashIndex' /\ m_HashIndex'[0] \in HashIndexes
                              /\ ScanOK(cursor, m_HashIndex'[0], want, seen)
  BY <1>0, <1>2 DEF ScanInv, SeenInv, CursorInv
<1>3. CASE cursor' = cursor /\ want' = want /\ seen' = seen /\ m_HashIndex' = m_HashIndex
  BY <1>2, <1>3 DEF ScanInv, CursorInv
<1>4. cursor # Nil => /\ 0 \in DOMAIN m_HashIndex /\ m_HashIndex[0] \in HashIndexes
                      /\ ScanOK(cursor, m_HashIndex[0], want, seen)
                      /\ DictOf(m_HashIndex, 0) # Nil
  BY MapIs, IndexIs DEF ScanInv, CursorInv, DictOf
<1>5. ASSUME NEW x \in Hash!Indexes, Hash!BuildIndex(x) PROVE ScanInv'
  <2>1. cursor' = cursor /\ want' = want /\ seen' = seen
    BY <1>5 DEF Hash!BuildIndex
  <2>2. CASE DictOf(m_HashIndex, x) # Nil
    BY <1>0, <1>3, <1>5, <2>1, <2>2, HashRests
  <2>3. CASE DictOf(m_HashIndex, x) = Nil
    <3>1. \A y \in DOMAIN m_HashIndex : y \in DOMAIN m_HashIndex' /\ (y # x => m_HashIndex'[y] = m_HashIndex[y])
      BY <1>0, <1>5, <2>3, BuildIs
    <3>2. cursor # Nil => x # 0
      BY <1>4, <2>3
    <3>. QED BY <1>2, <1>4, <2>1, <3>1, <3>2
  <2>. QED BY <2>2, <2>3
<1>6. ASSUME NEW x \in Hash!Indexes, NEW key \in Keys, NEW val \in HashVals, Hash!Insert(x, key, val) PROVE ScanInv'
  <2>1. cursor' = cursor /\ want' = want /\ seen' = seen
    BY <1>6 DEF Hash!Insert
  <2>2. CASE DictOf(m_HashIndex, x) = Nil
    BY <1>0, <1>3, <1>6, <2>1, <2>2, HashRests
  <2>3. CASE DictOf(m_HashIndex, x) # Nil
    <3>1. /\ DOMAIN m_HashIndex' = DOMAIN m_HashIndex
          /\ x \in DOMAIN m_HashIndex /\ m_HashIndex[x] \in HashIndexes
          /\ m_HashIndex'[x] = With(m_HashIndex[x], key, val)
          /\ \A y \in DOMAIN m_HashIndex : y # x => m_HashIndex'[y] = m_HashIndex[y]
      BY <1>0, <1>6, <2>3, InsertIs
    <3>2. ASSUME NEW ix \in HashIndexes, ScanOK(cursor, ix, want, seen)
          PROVE  With(ix, key, val) \in HashIndexes /\ ScanOK(cursor, With(ix, key, val), want, seen)
      <4>1. /\ With(ix, key, val) \in HashIndexes
            /\ \A b \in Hash!Buckets : DOMAIN ix[b] \subseteq DOMAIN With(ix, key, val)[b]
            /\ DOMAIN MapOf(With(ix, key, val)) = DOMAIN MapOf(ix) \cup {key}
        BY WithIs, Zenon
      <4>2. Hash!KeysOf(ix) \subseteq Hash!KeysOf(With(ix, key, val))
        BY <4>1, MapIs
      <4>. QED BY <3>2, <4>1, <4>2 DEF ScanOK
    <3>3. CASE x = 0
      BY <1>2, <1>4, <2>1, <3>1, <3>2, <3>3
    <3>4. CASE x # 0
      BY <1>2, <1>4, <2>1, <3>1, <3>4
    <3>. QED BY <3>3, <3>4
  <2>. QED BY <2>2, <2>3
<1>7. CASE (\E x \in Hash!Indexes, key \in Keys : Hash!Find(x, key)) \/ UNCHANGED Hash!vars
  BY <1>3, <1>7 DEF Hash!Find, Hash!vars
<1>. QED BY <1>1, <1>5, <1>6, <1>7 DEF Hash!Next

\* A scan of index 0 gives every key that was there when it began, and no key twice,
\* whatever inserts, finds and new indexes come between its calls; and every key is
\* in the bucket of its code.
THEOREM ScanSound == Hash!Spec => [](Hash!TypeOK /\ Hash!ScanIsComplete)
<1>1. Hash!Init => ScanInv
  <2>. SUFFICES ASSUME Hash!Init PROVE ScanInv
    OBVIOUS
  <2>1. HashTypes /\ cursor = Nil /\ want = {} /\ seen = <<>>
    BY HashInit DEF Hash!Init
  <2>. QED BY <2>1 DEF ScanInv, SeenInv, CursorInv
<1>2. ScanInv => Hash!TypeOK /\ Hash!ScanIsComplete
  <2>. SUFFICES ASSUME ScanInv PROVE Hash!TypeOK /\ Hash!ScanIsComplete
    OBVIOUS
  <2>1. /\ \E n \in 0 .. MaxIndex + 1 : DOMAIN m_HashIndex = 0 .. n - 1
        /\ \A x \in DOMAIN m_HashIndex : m_HashIndex[x] # Nil => m_HashIndex[x] \in HashIndexes
    BY DEF ScanInv, HashTypes, HashArrays
  <2>2. \A h \in Hash!Bucket : Hash!Range(h) \subseteq HashVals
    BY BucketIs DEF Hash!Range
  <2>3. \A x \in DOMAIN m_HashIndex : m_HashIndex[x] # Nil =>
          /\ DOMAIN m_HashIndex[x] = Hash!Buckets
          /\ \A b \in Hash!Buckets : /\ DOMAIN m_HashIndex[x][b] \subseteq {key \in Keys : Hash!hashVal(key) = b}
                                     /\ Hash!Range(m_HashIndex[x][b]) \subseteq HashVals
    BY <2>1, <2>2, IndexIs
  <2>4. cursor = Nil \/ cursor \in Cursors
    BY DEF ScanInv, CursorInv, ScanOK
  <2>5. want \subseteq Keys /\ Hash!Range(seen) \subseteq Keys
    BY DEF ScanInv, SeenInv, Hash!Range
  <2>6. Hash!TypeOK
    BY <2>1, <2>3, <2>4, <2>5 DEF Hash!TypeOK, Cursors
  <2>7. Hash!IsInjective(seen)
    BY DEF ScanInv, SeenInv, Hash!IsInjective
  <2>8. ASSUME Hash!Finished, NEW key \in want PROVE key \in Hash!Range(seen)
    <3>1. ScanOK(cursor, m_HashIndex[0], want, seen) /\ cursor.m_SearchHashVal = m_Size /\ key \in Keys
      BY <2>8, <2>5 DEF ScanInv, CursorInv, Hash!Finished
    <3>2. Hash!hashVal(key) < m_Size
      BY <3>1, HashConstants DEF Hash!Buckets
    <3>3. Passed(cursor, key)
      BY <3>1, <3>2 DEF Passed
    <3>4. PICK x \in DOMAIN seen : seen[x] = key
      BY <3>1, <3>3 DEF ScanOK
    <3>. QED BY <3>4 DEF Hash!Range
  <2>. QED BY <2>6, <2>7, <2>8 DEF Hash!ScanIsComplete
<1>. QED BY <1>1, <1>2, ScanStep, PTL DEF Hash!Spec

----------------------------------------------------------------------------
(***************************************************************************)
(* MroFiles, for every set of files of every kind and text.  The tables    *)
(* written are copies of the vectors, so what a table holds is what its    *)
(* vector held when its file ended (VecInv); and the counters, which are   *)
(* global and which only an object of an MRO file resets, count the rows   *)
(* since the last object of the file being read, if it has had one (CurInv):*)
(* before that they are what an earlier file left, and no row comes.       *)
(***************************************************************************)

MroKinds == {"MRE", "MRO"}
MroRow == [file : Files, line : Int, object : Int, overlap : Int, mod3 : Int]
Overlapping == {"near", "near3"}

\* ObjectOf, CountOf and RowsOf by the text of the file.
ObjectIn(t, n) == Max({m \in 1 .. n : t[m] = "object"})
Tally(t, a, b, S) == Cardinality({m \in a .. b : t[m] \in S})
CountIn(kind, t, n, S) == IF kind = "MRO" THEN Tally(t, ObjectIn(t, n), n, S) ELSE 0
RowsIn(kind, t) == {n \in DOMAIN t : t[n] \in RowLines /\ (kind = "MRO" => \A m \in 1 .. n : t[m] # "end")}

\* A row with its own object and counts.
Right(tx, r) == /\ r.object = ObjectIn(tx[r.file], r.line)
                /\ r.overlap = CountIn(Kind[r.file], tx[r.file], r.line, Overlapping)
                /\ r.mod3 = CountIn(Kind[r.file], tx[r.file], r.line, {"near3"})
AllRight(tx, q) == \A x \in DOMAIN q : Right(tx, q[x])

\* The order of the files in d, and of the rows of q by it.
IsIn(d, f) == \E x \in DOMAIN d : d[x] = f
Earlier(d, f, g) == \E x, y \in DOMAIN d : x < y /\ d[x] = f /\ d[y] = g
Sorted(d, q) == \A x, y \in DOMAIN q : x < y =>
    Earlier(d, q[x].file, q[y].file) \/ (q[x].file = q[y].file /\ q[x].line < q[y].line)
Holds(q, f, n) == \E x \in DOMAIN q : q[x].file = f /\ q[x].line = n

MroTypes == /\ text \in [Files -> Texts] /\ hu_file \in {"none", "dir", "file"} /\ inside \subseteq Files
            /\ pc \in {"main", "copy", "open", "loop", "deal", "exit", "end"}
            /\ unread \subseteq Files /\ cur \in Files \cup {NoFile}
            /\ object \in Int /\ OVERLAPP_COVERAGE \in Int /\ MOD3_NCELLS \in Int
            /\ vec \in [MroKinds -> Seq(MroRow)] /\ dealt \in Seq(Files)

StartInv == /\ pc \notin {"loop", "deal", "end"} =>
                 /\ dealt = <<>> /\ DOMAIN csv = {} /\ \A kind \in MroKinds : vec[kind] = <<>>
            /\ pc = "open" /\ hu_file = "dir" => inside = Files

DealtInv == /\ \A x, y \in DOMAIN dealt : dealt[x] = dealt[y] => x = y
            /\ \A x \in DOMAIN dealt : Kind[dealt[x]] \in MroKinds /\ dealt[x] \notin unread
            /\ pc \in {"loop", "deal", "end"} =>
                 \A f \in Files \ unread : Kind[f] # "neither" => IsIn(dealt, f)
            /\ pc = "end" => unread = {}

\* What the counters and the object are of.
Counted(t) == (\E m \in 1 .. line - 1 : t[m] = "object") =>
    /\ object \in 1 .. line - 1 /\ t[object] = "object"
    /\ \A m \in object + 1 .. line - 1 : t[m] # "object"
    /\ Kind[cur] = "MRO" => /\ OVERLAPP_COVERAGE = Tally(t, object, line - 1, Overlapping)
                            /\ MOD3_NCELLS = Tally(t, object, line - 1, {"near3"})

CurInv == pc = "deal" =>
    /\ cur \in Files /\ line \in 1 .. Len(text[cur]) + 1
    /\ Len(dealt) \in DOMAIN dealt /\ dealt[Len(dealt)] = cur
    /\ Kind[cur] = "MRO" => \A m \in 1 .. line - 1 : text[cur][m] # "end"
    /\ Counted(text[cur])

\* The rows that a vector holds.
Dealt(kind, f, n) == /\ IsIn(dealt, f) /\ Kind[f] = kind /\ n \in RowsIn(kind, text[f])
                     /\ pc = "deal" /\ f = cur => n < line

VecInv == \A kind \in MroKinds :
    /\ AllRight(text, vec[kind]) /\ Sorted(dealt, vec[kind])
    /\ \A f, n : Holds(vec[kind], f, n) <=> Dealt(kind, f, n)

\* A table: the rows of its file and of those of its kind that were dealt with before.
Table(d, tx, f, q) == /\ q \in Seq(MroRow) /\ AllRight(tx, q) /\ Sorted(d, q)
                      /\ \A g, n : Holds(q, g, n) <=> /\ Kind[g] = Kind[f] /\ n \in RowsIn(Kind[f], tx[g])
                                                      /\ g = f \/ Earlier(d, g, f)

\* The file that is not finished.
Busy(f) == pc = "deal" /\ f = cur

CsvInv == /\ \A f \in DOMAIN csv : IsIn(dealt, f) /\ ~Busy(f) /\ Table(dealt, text, f, csv[f])
          /\ saveFile => \A f \in Files : IsIn(dealt, f) /\ ~Busy(f) => f \in DOMAIN csv

MroInv == MroTypes /\ StartInv /\ DealtInv /\ CurInv /\ VecInv /\ CsvInv

\* The largest number of a set.
LEMMA MaxOf ==
  ASSUME NEW S \in SUBSET Int, NEW m \in S, \A n \in S : n <= m
  PROVE  Max(S) = m
<1>1. \A n \in S : m >= n
  OBVIOUS
<1>2. \A x \in S : (\A y \in S : x >= y) => x = m
  OBVIOUS
<1>. QED BY <1>1, <1>2, Zenon DEF Max

\* The texts are sequences of lines, with an object before the first row.
LEMMA TextFacts ==
  ASSUME MroTypes, NEW f \in Files
  PROVE  /\ text[f] \in Seq(Lines) /\ Len(text[f]) \in Nat /\ DOMAIN text[f] = 1 .. Len(text[f])
         /\ \A n \in DOMAIN text[f] : text[f][n] \in RowLines => \E m \in 1 .. n : text[f][m] = "object"
<1>1. text[f] \in Texts
  BY DEF MroTypes
<1>2. text[f] \in Seq(Lines)
  BY <1>1, MroAssumption
<1>. QED BY <1>1, <1>2, MroAssumption

\* One line more in a tally.
LEMMA TallyMore ==
  ASSUME NEW t, NEW a \in Int, NEW b \in Int, a <= b + 1, NEW S
  PROVE  /\ Tally(t, a, b, S) \in Int
         /\ Tally(t, a, b + 1, S) = Tally(t, a, b, S) + (IF t[b + 1] \in S THEN 1 ELSE 0)
<1>. DEFINE Old == {m \in a .. b : t[m] \in S}
            New == {m \in a .. b + 1 : t[m] \in S}
<1>1. IsFiniteSet(Old) /\ Cardinality(Old) \in Nat
  <2>1. IsFiniteSet(a .. b)
    BY FS_Interval
  <2>. QED BY <2>1, FS_Subset, FS_CardinalityType
<1>2. CASE t[b + 1] \in S
  <2>1. New = Old \cup {b + 1} /\ b + 1 \notin Old
    BY <1>2
  <2>2. Cardinality(New) = Cardinality(Old) + 1
    BY <1>1, <2>1, FS_AddElement
  <2>. QED BY <1>1, <1>2, <2>2 DEF Tally
<1>3. CASE t[b + 1] \notin S
  <2>1. New = Old
    BY <1>3
  <2>. QED BY <1>1, <1>3, <2>1 DEF Tally
<1>. QED BY <1>2, <1>3

\* Nothing is tallied in an object's own line.
LEMMA TallyOne ==
  ASSUME NEW t, NEW a \in Int, NEW S, t[a] \notin S
  PROVE  Tally(t, a, a, S) = 0
<1>1. {m \in a .. a : t[m] \in S} = {}
  OBVIOUS
<1>. QED BY <1>1, FS_EmptySet DEF Tally

\* No row has been read.
LEMMA MroInit == Init => MroInv
<1>. SUFFICES ASSUME Init PROVE MroInv
  OBVIOUS
<1>0. MroKinds = {"MRE", "MRO"} /\ vec = [kind \in MroKinds |-> <<>>] /\ dealt = <<>> /\ DOMAIN csv = {}
      /\ pc = "main"
  BY DEF Init, MroKinds
<1>1. MroTypes
  BY <1>0 DEF Init, MroTypes
<1>2. \A kind \in MroKinds : vec[kind] = <<>>
  BY <1>0
<1>3. StartInv /\ DealtInv /\ CurInv /\ CsvInv
  BY <1>0, <1>2 DEF StartInv, DealtInv, CurInv, CsvInv, IsIn
<1>4. VecInv
  BY <1>0, <1>2 DEF VecInv, AllRight, Sorted, Holds, Dealt, IsIn
<1>. QED BY <1>1, <1>3, <1>4 DEF MroInv

\* The directories.
LEMMA StartKeeps ==
  ASSUME MroInv, MakeDirectories \/ Copy \/ getDirectoryList
  PROVE  MroInv'
<1>1. /\ pc \in {"main", "copy", "open"} /\ pc' \in {"copy", "open", "loop", "exit"}
      /\ dealt = <<>> /\ DOMAIN csv = {} /\ \A kind \in MroKinds : vec[kind] = <<>>
      /\ text' = text /\ vec' = vec /\ csv' = csv /\ dealt' = dealt
      /\ cur' = cur /\ line' = line /\ object' = object
      /\ OVERLAPP_COVERAGE' = OVERLAPP_COVERAGE /\ MOD3_NCELLS' = MOD3_NCELLS
  BY DEF MroInv, StartInv, MakeDirectories, Copy, getDirectoryList, batch, home
<1>2. MroTypes'
  <2>1. hu_file' \in {"none", "dir", "file"} /\ inside' \subseteq Files /\ unread' \subseteq Files
    BY DEF MroInv, MroTypes, MakeDirectories, Copy, getDirectoryList, home
  <2>. QED BY <1>1, <2>1 DEF MroInv, MroTypes
<1>3. (pc' = "open" /\ hu_file' = "dir" => inside' = Files) /\ (pc' = "loop" => unread' = Files)
  BY DEF MroInv, StartInv, MakeDirectories, Copy, getDirectoryList, home
<1>4. StartInv'
  BY <1>1, <1>3 DEF StartInv
<1>5. DealtInv' /\ CurInv' /\ CsvInv'
  BY <1>1, <1>3 DEF DealtInv, CurInv, CsvInv, IsIn
<1>6. VecInv'
  BY <1>1 DEF VecInv, AllRight, Sorted, Holds, Dealt, IsIn
<1>. QED BY <1>2, <1>4, <1>5, <1>6 DEF MroInv

\* A file more in the order.
LEMMA OneFileMore ==
  ASSUME NEW d \in Seq(Files), NEW f \in Files, NEW e, e = Append(d, f)
  PROVE  /\ e \in Seq(Files) /\ Len(e) = Len(d) + 1 /\ Len(e) \in DOMAIN e /\ e[Len(e)] = f
         /\ DOMAIN d \subseteq DOMAIN e /\ \A x \in DOMAIN d : e[x] = d[x] /\ x < Len(e)
         /\ \A x \in DOMAIN e : x \in DOMAIN d \/ x = Len(e)
         /\ \A g : IsIn(e, g) <=> IsIn(d, g) \/ g = f
         /\ \A g, h : Earlier(d, g, h) => Earlier(e, g, h)
         /\ \A g, h : h # f => (Earlier(e, g, h) <=> Earlier(d, g, h))
<1>1. /\ e \in Seq(Files) /\ Len(e) = Len(d) + 1 /\ Len(e) \in DOMAIN e /\ e[Len(e)] = f
      /\ DOMAIN d \subseteq DOMAIN e /\ \A x \in DOMAIN d : e[x] = d[x] /\ x < Len(e)
      /\ \A x \in DOMAIN e : x \in Int /\ (x \in DOMAIN d \/ x = Len(e))
  OBVIOUS
<1>2. \A g : IsIn(e, g) <=> IsIn(d, g) \/ g = f
  BY <1>1 DEF IsIn
<1>3. \A g, h : Earlier(d, g, h) => Earlier(e, g, h)
  BY <1>1 DEF Earlier
<1>4. ASSUME NEW g, NEW h, h # f, Earlier(e, g, h) PROVE Earlier(d, g, h)
  <2>1. PICK x \in DOMAIN e, y \in DOMAIN e : x < y /\ e[x] = g /\ e[y] = h
    BY <1>4 DEF Earlier
  <2>2. y \in DOMAIN d
    BY <1>1, <1>4, <2>1
  <2>3. x \in DOMAIN d
    BY <1>1, <2>1, <2>2
  <2>. QED BY <1>1, <2>1, <2>2, <2>3 DEF Earlier
<1>. QED BY <1>1, <1>2, <1>3, <1>4

\* The next file.
LEMMA FileKeeps ==
  ASSUME MroInv, NEW f \in Files, dealingFile(f)
  PROVE  MroInv'
<1>1. /\ pc = "loop" /\ f \in unread /\ unread' = unread \ {f}
      /\ text' = text /\ hu_file' = hu_file /\ inside' = inside /\ saveFile' = saveFile
      /\ vec' = vec /\ csv' = csv /\ object' = object
      /\ OVERLAPP_COVERAGE' = OVERLAPP_COVERAGE /\ MOD3_NCELLS' = MOD3_NCELLS
  BY DEF dealingFile, home
<1>2. CASE Kind[f] = "neither"
  <2>1. pc' = pc /\ cur' = cur /\ line' = line /\ dealt' = dealt
    BY <1>2 DEF dealingFile
  <2>2. MroTypes' /\ StartInv' /\ CurInv'
    BY <1>1, <2>1 DEF MroInv, MroTypes, StartInv, CurInv
  <2>3. DealtInv'
    BY <1>1, <1>2, <2>1 DEF MroInv, DealtInv
  <2>4. VecInv'
    BY <1>1, <2>1 DEF MroInv, VecInv, Dealt
  <2>5. CsvInv'
    BY <1>1, <2>1 DEF MroInv, CsvInv, Busy
  <2>. QED BY <2>2, <2>3, <2>4, <2>5 DEF MroInv
<1>3. CASE Kind[f] # "neither"
  <2>1. pc' = "deal" /\ cur' = f /\ line' = 1 /\ dealt' = Append(dealt, f)
    BY <1>3 DEF dealingFile
  <2>2. Kind[f] \in MroKinds
    BY <1>3, MroAssumption DEF MroKinds
  <2>3. dealt \in Seq(Files)
    BY DEF MroInv, MroTypes
  <2>4. /\ dealt' \in Seq(Files) /\ Len(dealt') \in DOMAIN dealt' /\ dealt'[Len(dealt')] = f
        /\ \A x \in DOMAIN dealt : dealt'[x] = dealt[x] /\ x < Len(dealt')
        /\ \A x \in DOMAIN dealt' : x \in DOMAIN dealt \/ x = Len(dealt')
    BY <2>1, <2>3, OneFileMore
  <2>5. \A g : IsIn(dealt', g) <=> IsIn(dealt, g) \/ g = f
    BY <2>1, <2>3, OneFileMore
  <2>6. \A g, h : Earlier(dealt, g, h) => Earlier(dealt', g, h)
    BY <2>1, <2>3, OneFileMore
  <2>7. \A g, h : h # f => (Earlier(dealt', g, h) <=> Earlier(dealt, g, h))
    BY <2>1, <2>3, OneFileMore
  <2>8. ~IsIn(dealt, f)
    BY <1>1 DEF MroInv, DealtInv, IsIn
  <2>9. MroTypes' /\ StartInv'
    BY <1>1, <2>1, <2>4 DEF MroInv, MroTypes, StartInv
  <2>10. DealtInv'
    <3>1. \A x, y \in DOMAIN dealt' : dealt'[x] = dealt'[y] => x = y
      BY <2>4, <2>8 DEF MroInv, DealtInv, IsIn
    <3>2. \A x \in DOMAIN dealt' : Kind[dealt'[x]] \in MroKinds /\ dealt'[x] \notin unread'
      BY <1>1, <2>2, <2>4 DEF MroInv, DealtInv
    <3>3. \A g \in Files \ unread' : Kind[g] # "neither" => IsIn(dealt', g)
      BY <1>1, <2>5 DEF MroInv, DealtInv
    <3>. QED BY <2>1, <3>1, <3>2, <3>3 DEF DealtInv
  <2>11. CurInv'
    <3>1. Len(text[f]) \in Nat
      BY TextFacts DEF MroInv
    <3>2. 1 \in 1 .. Len(text[f]) + 1 /\ \A m \in 1 .. 1 - 1 : FALSE
      BY <3>1
    <3>. QED BY <1>1, <2>1, <2>4, <3>2 DEF CurInv, Counted
  <2>12. VecInv'
    <3>. SUFFICES ASSUME NEW kind \in MroKinds
                  PROVE  /\ AllRight(text, vec[kind]) /\ Sorted(dealt', vec[kind])
                         /\ \A g, n : Holds(vec[kind], g, n) <=> Dealt(kind, g, n)'
      BY <1>1 DEF VecInv
    <3>1. AllRight(text, vec[kind]) /\ Sorted(dealt', vec[kind])
      BY <2>6 DEF MroInv, VecInv, Sorted
    <3>2. ASSUME NEW g, NEW n PROVE Holds(vec[kind], g, n) <=> Dealt(kind, g, n)'
      <4>1. Holds(vec[kind], g, n) <=> IsIn(dealt, g) /\ Kind[g] = kind /\ n \in RowsIn(kind, text[g])
        BY <1>1 DEF MroInv, VecInv, Dealt
      <4>2. n \in RowsIn(kind, text[f]) => ~(n < 1)
        <5>1. DOMAIN text[f] = 1 .. Len(text[f]) /\ Len(text[f]) \in Nat
          BY TextFacts DEF MroInv
        <5>. QED BY <5>1 DEF RowsIn
      <4>3. Dealt(kind, g, n)' <=> /\ IsIn(dealt', g) /\ Kind[g] = kind /\ n \in RowsIn(kind, text[g])
                                   /\ g = f => n < 1
        BY <1>1, <2>1 DEF Dealt
      <4>. QED BY <4>1, <4>2, <4>3, <2>5, <2>8
    <3>. QED BY <3>1, <3>2
  <2>13. CsvInv'
    <3>1. ASSUME NEW g \in DOMAIN csv PROVE IsIn(dealt', g) /\ ~Busy(g)' /\ Table(dealt', text, g, csv[g])
      <4>1. IsIn(dealt, g) /\ g # f /\ Table(dealt, text, g, csv[g])
        BY <3>1, <2>8 DEF MroInv, CsvInv
      <4>2. Sorted(dealt', csv[g])
        BY <4>1, <2>6 DEF Table, Sorted
      <4>3. Table(dealt', text, g, csv[g])
        BY <4>1, <4>2, <2>7 DEF Table
      <4>. QED BY <4>1, <4>3, <2>1, <2>5 DEF Busy
    <3>2. saveFile => \A g \in Files : IsIn(dealt', g) /\ ~Busy(g)' => g \in DOMAIN csv
      BY <1>1, <2>1, <2>5 DEF MroInv, CsvInv, Busy
    <3>. QED BY <1>1, <3>1, <3>2 DEF CsvInv
  <2>. QED BY <2>9, <2>10, <2>11, <2>12, <2>13 DEF MroInv
<1>. QED BY <1>2, <1>3

\* A line of the file that is read: what does not depend on the line stays.
LineRead == /\ pc = "deal" /\ pc' = "deal" /\ cur' = cur /\ line' = line + 1 /\ line <= Len(text[cur])
            /\ text' = text /\ hu_file' = hu_file /\ inside' = inside /\ saveFile' = saveFile
            /\ unread' = unread /\ csv' = csv /\ dealt' = dealt

\* What a line of a file is.
LEMMA LineFacts ==
  ASSUME MroInv, LineRead
  PROVE  /\ cur \in Files /\ line \in Nat \ {0} /\ line \in DOMAIN text[cur] /\ line' \in 1 .. Len(text[cur]) + 1
         /\ (line + 1) - 1 = line /\ (line - 1) + 1 = line
         /\ \A m \in 1 .. line : m \in 1 .. line - 1 \/ m = line
         /\ IsIn(dealt, cur) /\ Kind[cur] \in MroKinds
<1>1. cur \in Files /\ line \in 1 .. Len(text[cur]) + 1 /\ IsIn(dealt, cur)
  BY DEF LineRead, MroInv, CurInv, IsIn
<1>2. Len(text[cur]) \in Nat /\ DOMAIN text[cur] = 1 .. Len(text[cur])
  BY <1>1, TextFacts DEF MroInv
<1>3. Kind[cur] \in MroKinds
  BY <1>1 DEF MroInv, DealtInv, IsIn
<1>. QED BY <1>1, <1>2, <1>3 DEF LineRead

\* What is left to show of a line.
LEMMA LineKeeps ==
  ASSUME MroInv, LineRead,
         object' \in Int /\ OVERLAPP_COVERAGE' \in Int /\ MOD3_NCELLS' \in Int,
         vec' \in [MroKinds -> Seq(MroRow)],
         Kind[cur] = "MRO" => text[cur][line] # "end",
         Counted(text[cur])', VecInv'
  PROVE  MroInv'
<1>1. MroTypes' /\ StartInv'
  BY DEF MroInv, MroTypes, StartInv, LineRead
<1>2. DealtInv'
  BY DEF MroInv, DealtInv, LineRead
<1>3. CurInv'
  <2>1. Kind[cur] = "MRO" => \A m \in 1 .. line : text[cur][m] # "end"
    BY LineFacts DEF MroInv, CurInv, LineRead
  <2>2. line' - 1 = line
    BY LineFacts DEF LineRead
  <2>3. /\ cur \in Files /\ line' \in 1 .. Len(text[cur]) + 1
        /\ Len(dealt) \in DOMAIN dealt /\ dealt[Len(dealt)] = cur
    BY LineFacts DEF MroInv, CurInv, LineRead
  <2>. QED BY <2>1, <2>2, <2>3 DEF CurInv, LineRead
<1>4. CsvInv'
  BY DEF MroInv, CsvInv, Busy, LineRead
<1>. QED BY <1>1, <1>2, <1>3, <1>4 DEF MroInv

\* A line without a row leaves the vectors alone.
LEMMA NoRow ==
  ASSUME MroInv, LineRead, vec' = vec, text[cur][line] \notin RowLines
  PROVE  VecInv'
<1>. SUFFICES ASSUME NEW kind \in MroKinds, NEW f, NEW n
              PROVE  Dealt(kind, f, n)' <=> Dealt(kind, f, n)
  BY DEF MroInv, VecInv, LineRead
<1>1. n \in RowsIn(kind, text[cur]) => n \in Int /\ n # line
  <2>1. DOMAIN text[cur] = 1 .. Len(text[cur]) /\ Len(text[cur]) \in Nat
    BY TextFacts, LineFacts DEF MroInv
  <2>. QED BY <2>1 DEF RowsIn
<1>2. n \in Int /\ n # line => (n < line + 1 <=> n < line)
  BY LineFacts
<1>. QED BY <1>1, <1>2 DEF Dealt, LineRead

\* A line that is skipped.
LEMMA SkipKeeps == ASSUME MroInv, SkipLine PROVE MroInv'
<1>1. LineRead /\ vec' = vec /\ object' = object
      /\ OVERLAPP_COVERAGE' = OVERLAPP_COVERAGE /\ MOD3_NCELLS' = MOD3_NCELLS
  BY DEF SkipLine, At, AtEnd, LineRead, home, batch
<1>2. text[cur][line] \in {"other", "end"} /\ (Kind[cur] = "MRO" => text[cur][line] # "end")
  BY DEF SkipLine, At, AtEnd
<1>3. text[cur][line] \notin RowLines \cup {"object"} \cup Overlapping
  BY <1>2 DEF RowLines, Overlapping
<1>4. Counted(text[cur])'
  <2>. DEFINE t == text[cur]
  <2>0. Counted(t) /\ t' = t
    BY <1>1 DEF MroInv, CurInv, LineRead
  <2>1. SUFFICES ASSUME NEW m \in 1 .. line, t[m] = "object"
                 PROVE  /\ object \in 1 .. line /\ t[object] = "object"
                        /\ \A w \in object + 1 .. line : t[w] # "object"
                        /\ Kind[cur] = "MRO" => /\ OVERLAPP_COVERAGE = Tally(t, object, line, Overlapping)
                                                /\ MOD3_NCELLS = Tally(t, object, line, {"near3"})
    BY <1>1, <2>0, LineFacts DEF Counted, LineRead
  <2>2. m \in 1 .. line - 1
    BY <1>1, <1>3, <2>1, LineFacts
  <2>3. /\ object \in 1 .. line - 1 /\ t[object] = "object"
        /\ \A w \in object + 1 .. line - 1 : t[w] # "object"
        /\ Kind[cur] = "MRO" => /\ OVERLAPP_COVERAGE = Tally(t, object, line - 1, Overlapping)
                                /\ MOD3_NCELLS = Tally(t, object, line - 1, {"near3"})
    BY <2>0, <2>1, <2>2 DEF Counted
  <2>4. line \in Nat /\ object \in Int /\ object <= (line - 1) + 1 /\ (line - 1) + 1 = line /\ line - 1 \in Int
    BY <1>1, <2>3, LineFacts
  <2>5. \A S : t[line] \notin S => Tally(t, object, line, S) = Tally(t, object, line - 1, S)
    <3>. SUFFICES ASSUME NEW S, t[line] \notin S PROVE Tally(t, object, line, S) = Tally(t, object, line - 1, S)
      OBVIOUS
    <3>1. /\ Tally(t, object, line - 1, S) \in Int
          /\ Tally(t, object, (line - 1) + 1, S) =
               Tally(t, object, line - 1, S) + (IF t[(line - 1) + 1] \in S THEN 1 ELSE 0)
      BY <2>4, TallyMore
    <3>. QED BY <2>4, <3>1
  <2>6. \A w \in object + 1 .. line : t[w] # "object"
    BY <1>3, <2>3, <2>4
  <2>7. object \in 1 .. line
    BY <2>3, <2>4
  <2>. QED BY <1>3, <2>3, <2>5, <2>6, <2>7 DEF Overlapping
<1>. QED BY <1>1, <1>2, <1>3, <1>4, LineKeeps, NoRow DEF MroInv, MroTypes

\* A line that begins an object.
LEMMA ObjectKeeps == ASSUME MroInv, Object PROVE MroInv'
<1>1. LineRead /\ vec' = vec /\ object' = line /\ text[cur][line] = "object"
  BY DEF Object, At, LineRead, home
<1>2. IF Kind[cur] = "MRO" THEN OVERLAPP_COVERAGE' = 0 /\ MOD3_NCELLS' = 0
      ELSE OVERLAPP_COVERAGE' = OVERLAPP_COVERAGE /\ MOD3_NCELLS' = MOD3_NCELLS
  BY DEF Object
<1>3. text[cur][line] \notin RowLines \cup Overlapping \cup {"near3", "end"}
  BY <1>1 DEF RowLines, Overlapping
<1>4. object' \in Int /\ OVERLAPP_COVERAGE' \in Int /\ MOD3_NCELLS' \in Int
  BY <1>1, <1>2, LineFacts DEF MroInv, MroTypes
<1>5. Counted(text[cur])'
  <2>1. line \in Int /\ line' - 1 = line /\ object' \in 1 .. line' - 1 /\ \A m \in line + 1 .. line : FALSE
    BY <1>1, LineFacts DEF LineRead
  <2>2. Tally(text[cur], line, line, Overlapping) = 0 /\ Tally(text[cur], line, line, {"near3"}) = 0
    BY <1>3, <2>1, TallyOne
  <2>. QED BY <1>1, <1>2, <2>1, <2>2 DEF Counted, LineRead
<1>. QED BY <1>1, <1>3, <1>4, <1>5, LineKeeps, NoRow DEF MroInv, MroTypes

\* The end of an object.
LEMMA FinishKeeps == ASSUME MroInv, Finish \/ UNCHANGED vars PROVE MroInv'
<1>1. /\ text' = text /\ hu_file' = hu_file /\ inside' = inside /\ saveFile' = saveFile
      /\ unread' = unread /\ cur' = cur /\ line' = line /\ object' = object
      /\ OVERLAPP_COVERAGE' = OVERLAPP_COVERAGE /\ MOD3_NCELLS' = MOD3_NCELLS
      /\ vec' = vec /\ csv' = csv /\ dealt' = dealt
      /\ pc' = pc \/ (pc = "loop" /\ pc' = "end" /\ unread = {})
  BY DEF Finish, vars, home, batch
<1>2. MroTypes' /\ StartInv' /\ DealtInv'
  BY <1>1 DEF MroInv, MroTypes, StartInv, DealtInv
<1>3. CurInv'
  BY <1>1 DEF MroInv, CurInv, Counted
<1>4. \A kind, f, n : Dealt(kind, f, n)' <=> Dealt(kind, f, n)
  BY <1>1 DEF Dealt
<1>5. VecInv'
  BY <1>1, <1>4 DEF MroInv, VecInv
<1>6. CsvInv'
  BY <1>1 DEF MroInv, CsvInv, Busy
<1>. QED BY <1>2, <1>3, <1>5, <1>6 DEF MroInv

\* The row that is written.
NewRow == [file |-> cur, line |-> line, object |-> object,
           overlap |-> IF Kind[cur] = "MRO" THEN OVERLAPP_COVERAGE' ELSE 0,
           mod3 |-> IF Kind[cur] = "MRO" THEN MOD3_NCELLS' ELSE 0]

\* A row of values.
LEMMA RowKeeps == ASSUME MroInv, NEW l \in RowLines, Row(l) PROVE MroInv'
<1>1. LineRead /\ object' = object /\ text[cur][line] = l
  BY DEF Row, At, LineRead, home
<1>2. /\ IF Kind[cur] = "MRO" THEN /\ OVERLAPP_COVERAGE' = OVERLAPP_COVERAGE + (IF l # "far" THEN 1 ELSE 0)
                                   /\ MOD3_NCELLS' = MOD3_NCELLS + (IF l = "near3" THEN 1 ELSE 0)
         ELSE OVERLAPP_COVERAGE' = OVERLAPP_COVERAGE /\ MOD3_NCELLS' = MOD3_NCELLS
      /\ vec' = [vec EXCEPT ![Kind[cur]] = Append(@, NewRow)]
  BY DEF Row, NewRow
<1>3. l \notin {"object", "end"} /\ (l \in Overlapping <=> l # "far") /\ (l \in {"near3"} <=> l = "near3")
  BY DEF RowLines, Overlapping
<1>4. object' \in Int /\ OVERLAPP_COVERAGE' \in Int /\ MOD3_NCELLS' \in Int
  BY <1>1, <1>2 DEF MroInv, MroTypes
<1>. DEFINE t == text[cur]
<1>5. /\ object \in 1 .. line - 1 /\ t[object] = "object"
      /\ \A w \in object + 1 .. line - 1 : t[w] # "object"
      /\ Kind[cur] = "MRO" => /\ OVERLAPP_COVERAGE = Tally(t, object, line - 1, Overlapping)
                              /\ MOD3_NCELLS = Tally(t, object, line - 1, {"near3"})
  <2>1. PICK m \in 1 .. line : t[m] = "object"
    BY <1>1, LineFacts, TextFacts DEF MroInv
  <2>2. m \in 1 .. line - 1
    BY <1>1, <1>3, <2>1, LineFacts
  <2>. QED BY <1>1, <2>1, <2>2 DEF MroInv, CurInv, Counted, LineRead
<1>6. line \in Nat /\ object \in Int /\ object <= (line - 1) + 1 /\ (line - 1) + 1 = line /\ line - 1 \in Int
  BY <1>1, <1>5, LineFacts
<1>7. ASSUME NEW S PROVE Tally(t, object, line, S) = Tally(t, object, line - 1, S) + (IF l \in S THEN 1 ELSE 0)
  <2>1. Tally(t, object, (line - 1) + 1, S) =
               Tally(t, object, line - 1, S) + (IF t[(line - 1) + 1] \in S THEN 1 ELSE 0)
    BY <1>6, TallyMore
  <2>. QED BY <1>1, <1>6, <2>1
<1>8. Kind[cur] = "MRO" => /\ OVERLAPP_COVERAGE' = Tally(t, object, line, Overlapping)
                           /\ MOD3_NCELLS' = Tally(t, object, line, {"near3"})
  BY <1>2, <1>3, <1>5, <1>7
<1>9. object \in 1 .. line /\ \A w \in object + 1 .. line : t[w] # "object"
  BY <1>1, <1>3, <1>5, <1>6
<1>10. Counted(text[cur])'
  <2>1. line' - 1 = line /\ text'[cur'] = t
    BY <1>1, LineFacts DEF LineRead
  <2>. QED BY <1>1, <1>5, <1>8, <1>9, <2>1 DEF Counted, LineRead
<1>11. NewRow \in MroRow
  BY <1>1, <1>4, <1>6, LineFacts DEF NewRow, MroRow
<1>12. Right(text, NewRow)
  <2>1. ObjectIn(t, line) = object
    <3>1. /\ {m \in 1 .. line : t[m] = "object"} \in SUBSET Int
          /\ object \in {m \in 1 .. line : t[m] = "object"}
          /\ \A n \in {m \in 1 .. line : t[m] = "object"} : n <= object
      BY <1>5, <1>6, <1>9
    <3>. QED BY <3>1, MaxOf DEF ObjectIn
  <2>. QED BY <1>8, <2>1 DEF Right, NewRow, CountIn
<1>13. Kind[cur] \in MroKinds /\ vec \in [MroKinds -> Seq(MroRow)]
  BY <1>1, LineFacts DEF MroInv, MroTypes
<1>. DEFINE old == vec[Kind[cur]]
            new == Append(old, NewRow)
<1>14. /\ vec' \in [MroKinds -> Seq(MroRow)] /\ vec'[Kind[cur]] = new
       /\ \A kind \in MroKinds : kind # Kind[cur] => vec'[kind] = vec[kind]
  BY <1>2, <1>11, <1>13
<1>15. /\ old \in Seq(MroRow) /\ Len(new) = Len(old) + 1 /\ Len(new) \in DOMAIN new /\ new[Len(new)] = NewRow
       /\ \A x \in DOMAIN old : x \in DOMAIN new /\ new[x] = old[x]
       /\ \A x \in DOMAIN new : x \in DOMAIN old \/ x = Len(new)
       /\ \A x \in DOMAIN new : x <= Len(new)
  BY <1>11, <1>13
<1>16. \A f, n : Holds(new, f, n) <=> Holds(old, f, n) \/ (f = cur /\ n = line)
  BY <1>15 DEF Holds, NewRow
<1>17. AllRight(text, old) /\ Sorted(dealt, old)
       /\ \A f, n : Holds(old, f, n) <=> Dealt(Kind[cur], f, n)
  BY <1>13 DEF MroInv, VecInv
<1>18. AllRight(text, new)
  BY <1>12, <1>15, <1>17 DEF AllRight
<1>19. Sorted(dealt, new)
  <2>. SUFFICES ASSUME NEW x \in DOMAIN new, NEW y \in DOMAIN new, x < y
                PROVE  \/ Earlier(dealt, new[x].file, new[y].file)
                       \/ new[x].file = new[y].file /\ new[x].line < new[y].line
    BY DEF Sorted
  <2>1. x \in DOMAIN old
    BY <1>15
  <2>2. CASE y \in DOMAIN old
    BY <1>15, <1>17, <2>1, <2>2 DEF Sorted
  <2>3. CASE y = Len(new)
    <3>1. new[x] = old[x] /\ new[y].file = cur /\ new[y].line = line
      BY <1>15, <2>1, <2>3 DEF NewRow
    <3>2. Dealt(Kind[cur], old[x].file, old[x].line)
      BY <1>17, <2>1 DEF Holds
    <3>3. CASE old[x].file = cur
      BY <1>1, <3>1, <3>2, <3>3 DEF Dealt, LineRead
    <3>4. CASE old[x].file # cur
      <4>1. PICK w \in DOMAIN dealt : dealt[w] = old[x].file
        BY <3>2 DEF Dealt, IsIn
      <4>2. Len(dealt) \in DOMAIN dealt /\ dealt[Len(dealt)] = cur /\ dealt \in Seq(Files)
        BY <1>1 DEF MroInv, CurInv, LineRead, MroTypes
      <4>3. w < Len(dealt)
        BY <3>4, <4>1, <4>2
      <4>. QED BY <3>1, <4>1, <4>2, <4>3 DEF Earlier
    <3>. QED BY <3>3, <3>4
  <2>. QED BY <1>15, <2>2, <2>3
<1>20. ASSUME NEW kind \in MroKinds, NEW f, NEW n
       PROVE  Dealt(kind, f, n)' <=> Dealt(kind, f, n) \/ (kind = Kind[cur] /\ f = cur /\ n = line)
  <2>1. line \in RowsIn(Kind[cur], t)
    <3>1. Kind[cur] = "MRO" => \A m \in 1 .. line : t[m] # "end"
      BY <1>1, <1>3, LineFacts DEF MroInv, CurInv, LineRead
    <3>. QED BY <1>1, <3>1, LineFacts DEF RowsIn
  <2>2. IsIn(dealt, cur)
    BY <1>1, LineFacts
  <2>3. n \in RowsIn(kind, text[cur]) => n \in Int
    <3>1. DOMAIN text[cur] = 1 .. Len(text[cur]) /\ Len(text[cur]) \in Nat
      BY <1>1, TextFacts, LineFacts DEF MroInv
    <3>. QED BY <3>1 DEF RowsIn
  <2>4. /\ Dealt(kind, f, n)' <=> /\ IsIn(dealt, f) /\ Kind[f] = kind /\ n \in RowsIn(kind, text[f])
                                  /\ f = cur => n < line + 1
        /\ Dealt(kind, f, n) <=> /\ IsIn(dealt, f) /\ Kind[f] = kind /\ n \in RowsIn(kind, text[f])
                                 /\ f = cur => n < line
    BY <1>1 DEF Dealt, LineRead
  <2>5. n \in Int => (n < line + 1 <=> n < line \/ n = line)
    BY <1>6
  <2>6. ~(line < line) /\ line < line + 1
    BY <1>6
  <2>7. CASE f = cur
    BY <2>1, <2>2, <2>3, <2>4, <2>5, <2>6, <2>7
  <2>8. CASE f # cur
    BY <2>4, <2>8
  <2>. QED BY <2>7, <2>8
<1>21. VecInv'
  <2>. SUFFICES ASSUME NEW kind \in MroKinds
                PROVE  /\ AllRight(text, vec'[kind]) /\ Sorted(dealt, vec'[kind])
                       /\ \A f, n : Holds(vec'[kind], f, n) <=> Dealt(kind, f, n)'
    BY <1>1 DEF VecInv, LineRead
  <2>1. CASE kind = Kind[cur]
    <3>1. \A f, n : Holds(new, f, n) <=> Dealt(kind, f, n)'
      BY <1>16, <1>17, <1>20, <2>1
    <3>. QED BY <1>14, <1>18, <1>19, <2>1, <3>1
  <2>2. CASE kind # Kind[cur]
    BY <1>14, <1>20, <2>2 DEF MroInv, VecInv
  <2>. QED BY <2>1, <2>2
<1>. QED BY <1>1, <1>3, <1>4, <1>10, <1>14, <1>21, LineKeeps

\* The end of a file: its table is the vector.
LEMMA CsvKeeps == ASSUME MroInv, createCsvFile PROVE MroInv'
<1>1. /\ pc = "deal" /\ pc' = "loop"
      /\ text' = text /\ hu_file' = hu_file /\ inside' = inside /\ saveFile' = saveFile
      /\ unread' = unread /\ cur' = cur /\ line' = line /\ vec' = vec /\ dealt' = dealt
      /\ object' = object /\ OVERLAPP_COVERAGE' = OVERLAPP_COVERAGE /\ MOD3_NCELLS' = MOD3_NCELLS
      /\ line <= Len(text[cur]) => Kind[cur] = "MRO" /\ text[cur][line] = "end"
      /\ csv' = IF saveFile THEN [f \in DOMAIN csv \cup {cur} |-> IF f = cur THEN vec[Kind[cur]] ELSE csv[f]]
                ELSE csv
  BY DEF createCsvFile, AtEnd, home
<1>2. /\ cur \in Files /\ line \in 1 .. Len(text[cur]) + 1 /\ dealt \in Seq(Files)
      /\ Len(dealt) \in DOMAIN dealt /\ dealt[Len(dealt)] = cur
  BY <1>1 DEF MroInv, CurInv, MroTypes
<1>3. IsIn(dealt, cur) /\ Kind[cur] \in MroKinds
  BY <1>2 DEF MroInv, DealtInv, IsIn
<1>4. \A kind, n : Kind[cur] = kind /\ n \in RowsIn(kind, text[cur]) => n < line
  <2>1. Len(text[cur]) \in Nat /\ DOMAIN text[cur] = 1 .. Len(text[cur])
    BY <1>2, TextFacts DEF MroInv
  <2>. SUFFICES ASSUME NEW n \in RowsIn(Kind[cur], text[cur]), ~(n < line) PROVE FALSE
    OBVIOUS
  <2>2. n \in 1 .. Len(text[cur]) /\ line \in 1 .. n
    BY <2>1, <1>2 DEF RowsIn
  <2>. QED BY <1>1, <1>2, <2>1, <2>2 DEF RowsIn
<1>5. \A kind, f, n : Dealt(kind, f, n)' <=> Dealt(kind, f, n)
  BY <1>1, <1>4 DEF Dealt
<1>6. MroTypes' /\ StartInv' /\ DealtInv' /\ CurInv'
  BY <1>1 DEF MroInv, MroTypes, StartInv, DealtInv, CurInv
<1>7. VecInv'
  BY <1>1, <1>5 DEF MroInv, VecInv
<1>8. Table(dealt, text, cur, vec[Kind[cur]])
  <2>1. \A g : IsIn(dealt, g) <=> g = cur \/ Earlier(dealt, g, cur)
    <3>1. ASSUME NEW g, IsIn(dealt, g), g # cur PROVE Earlier(dealt, g, cur)
      <4>1. PICK w \in DOMAIN dealt : dealt[w] = g
        BY <3>1 DEF IsIn
      <4>2. w < Len(dealt)
        BY <1>2, <3>1, <4>1
      <4>. QED BY <1>2, <4>1, <4>2 DEF Earlier
    <3>. QED BY <3>1, <1>3 DEF Earlier, IsIn
  <2>2. \A g, n : Holds(vec[Kind[cur]], g, n) <=> IsIn(dealt, g) /\ Kind[g] = Kind[cur] /\ n \in RowsIn(Kind[cur], text[g])
    BY <1>3, <1>4 DEF MroInv, VecInv, Dealt
  <2>3. vec[Kind[cur]] \in Seq(MroRow) /\ AllRight(text, vec[Kind[cur]]) /\ Sorted(dealt, vec[Kind[cur]])
    BY <1>3 DEF MroInv, VecInv, MroTypes
  <2>. QED BY <2>1, <2>2, <2>3 DEF Table
<1>9. CsvInv'
  <2>1. CASE saveFile
    <3>1. DOMAIN csv' = DOMAIN csv \cup {cur} /\ csv'[cur] = vec[Kind[cur]]
          /\ \A f \in DOMAIN csv : f # cur => csv'[f] = csv[f]
      BY <1>1, <2>1
    <3>2. \A f \in DOMAIN csv' : IsIn(dealt, f) /\ ~Busy(f)' /\ Table(dealt, text, f, csv'[f])
      BY <1>1, <1>3, <1>8, <3>1 DEF MroInv, CsvInv, Busy
    <3>3. \A f \in Files : IsIn(dealt, f) => f \in DOMAIN csv'
      BY <2>1, <3>1 DEF MroInv, CsvInv, Busy
    <3>. QED BY <1>1, <3>2, <3>3 DEF CsvInv
  <2>2. CASE ~saveFile
    BY <1>1, <2>2 DEF MroInv, CsvInv, Busy
  <2>. QED BY <2>1, <2>2
<1>. QED BY <1>6, <1>7, <1>9 DEF MroInv

\* Every step of the reader keeps the invariant.
LEMMA MroStep == MroInv /\ [Next]_vars => MroInv'
  BY StartKeeps, FileKeeps, SkipKeeps, ObjectKeeps, RowKeeps, CsvKeeps, FinishKeeps DEF Next

\* What the invariant says of the properties.
LEMMA MroSound == MroInv => TablesHoldTheirRows
<1>. SUFFICES ASSUME MroInv PROVE TablesHoldTheirRows
  OBVIOUS
<1>1. ASSUME NEW f \in DOMAIN csv
      PROVE  f \in Files /\ Kind[f] # "neither" /\ IsIn(dealt, f) /\ Table(dealt, text, f, csv[f])
  <2>1. IsIn(dealt, f) /\ Table(dealt, text, f, csv[f])
    BY <1>1 DEF MroInv, CsvInv
  <2>2. PICK x \in DOMAIN dealt : dealt[x] = f
    BY <2>1 DEF IsIn
  <2>3. f \in Files
    BY <2>2 DEF MroInv, MroTypes
  <2>4. Kind[f] \in MroKinds
    BY <2>2 DEF MroInv, DealtInv
  <2>5. Kind[f] # "neither"
    BY <2>4 DEF MroKinds
  <2>. QED BY <2>1, <2>3, <2>5
<1>2. TypeOK
  BY <1>1 DEF MroInv, MroTypes, CurInv, TypeOK
<1>3. RowsAreOfTheirObject
  <2>1. \A f \in DOMAIN csv : \A x \in DOMAIN csv[f] : Right(text, csv[f][x])
    BY <1>1 DEF Table, AllRight
  <2>. QED BY <2>1 DEF RowsAreOfTheirObject, ObjectOf, CountOf, Right, ObjectIn, CountIn, Tally, Overlapping
<1>4. TablesAccumulate
  <2>. SUFFICES ASSUME NEW f \in DOMAIN csv
       PROVE  LET Before == {x \in DOMAIN dealt : Kind[dealt[x]] = Kind[f] /\ \E y \in x .. Len(dealt) : dealt[y] = f}
                  Pos(g) == CHOOSE x \in DOMAIN dealt : dealt[x] = g
              IN /\ {<<csv[f][x].file, csv[f][x].line>> : x \in DOMAIN csv[f]} =
                      UNION {{dealt[x]} \X RowsOf(dealt[x]) : x \in Before}
                 /\ \A x, y \in DOMAIN csv[f] : x < y =>
                      \/ Pos(csv[f][x].file) < Pos(csv[f][y].file)
                      \/ csv[f][x].file = csv[f][y].file /\ csv[f][x].line < csv[f][y].line
    BY DEF TablesAccumulate
  <2>. DEFINE Before == {x \in DOMAIN dealt : Kind[dealt[x]] = Kind[f] /\ \E y \in x .. Len(dealt) : dealt[y] = f}
              Pos(g) == CHOOSE x \in DOMAIN dealt : dealt[x] = g
  <2>1. Table(dealt, text, f, csv[f]) /\ IsIn(dealt, f)
    BY <1>1
  <2>2. dealt \in Seq(Files) /\ \A x, y \in DOMAIN dealt : dealt[x] = dealt[y] => x = y
    BY DEF MroInv, MroTypes, DealtInv
  <2>3. \A x \in DOMAIN dealt : Pos(dealt[x]) = x
    BY <2>2
  <2>4. \A g, h : Earlier(dealt, g, h) => Pos(g) < Pos(h)
    <3>. SUFFICES ASSUME NEW g, NEW h, Earlier(dealt, g, h) PROVE Pos(g) < Pos(h)
      OBVIOUS
    <3>1. PICK x \in DOMAIN dealt, y \in DOMAIN dealt : x < y /\ dealt[x] = g /\ dealt[y] = h
      BY DEF Earlier
    <3>2. Pos(g) = x /\ Pos(h) = y
      <4>. HIDE DEF Pos
      <4>. QED BY <2>3, <3>1
    <3>. HIDE DEF Pos
    <3>. QED BY <3>1, <3>2
  <2>5. \A g : Kind[g] = Kind[f] /\ (g = f \/ Earlier(dealt, g, f)) <=> \E x \in Before : dealt[x] = g
    <3>1. ASSUME NEW g, Kind[g] = Kind[f], g = f PROVE \E x \in Before : dealt[x] = g
      BY <2>1, <2>2, <3>1 DEF IsIn
    <3>2. ASSUME NEW g, Kind[g] = Kind[f], Earlier(dealt, g, f) PROVE \E x \in Before : dealt[x] = g
      BY <2>2, <3>2 DEF Earlier
    <3>3. ASSUME NEW g, NEW x \in Before, dealt[x] = g PROVE Kind[g] = Kind[f] /\ (g = f \/ Earlier(dealt, g, f))
      <4>1. PICK y \in x .. Len(dealt) : dealt[y] = f
        BY <3>3
      <4>2. y \in DOMAIN dealt /\ (x = y \/ x < y)
        BY <2>2, <3>3, <4>1
      <4>. QED BY <3>3, <4>1, <4>2 DEF Earlier
    <3>. QED BY <3>1, <3>2, <3>3
  <2>6. \A x \in DOMAIN dealt : RowsOf(dealt[x]) = RowsIn(Kind[dealt[x]], text[dealt[x]])
    BY DEF RowsOf, RowsIn
  <2>7. \A g, n : Holds(csv[f], g, n) <=> \E x \in Before : dealt[x] = g /\ n \in RowsOf(dealt[x])
    <3>1. \A g, n : Holds(csv[f], g, n) <=> /\ Kind[g] = Kind[f] /\ n \in RowsIn(Kind[f], text[g])
                                            /\ g = f \/ Earlier(dealt, g, f)
      BY <2>1 DEF Table
    <3>2. \A x \in Before : Kind[dealt[x]] = Kind[f] /\ x \in DOMAIN dealt
      OBVIOUS
    <3>. HIDE DEF Before
    <3>. QED BY <2>5, <2>6, <3>1, <3>2
  <2>8. {<<csv[f][x].file, csv[f][x].line>> : x \in DOMAIN csv[f]} = UNION {{dealt[x]} \X RowsOf(dealt[x]) : x \in Before}
    <3>. HIDE DEF Before
    <3>1. ASSUME NEW x \in DOMAIN csv[f]
          PROVE  <<csv[f][x].file, csv[f][x].line>> \in UNION {{dealt[y]} \X RowsOf(dealt[y]) : y \in Before}
      <4>1. PICK y \in Before : dealt[y] = csv[f][x].file /\ csv[f][x].line \in RowsOf(dealt[y])
        BY <2>7, <3>1 DEF Holds
      <4>. QED BY <4>1
    <3>2. ASSUME NEW y \in Before, NEW n \in RowsOf(dealt[y])
          PROVE  <<dealt[y], n>> \in {<<csv[f][x].file, csv[f][x].line>> : x \in DOMAIN csv[f]}
      <4>1. PICK x \in DOMAIN csv[f] : csv[f][x].file = dealt[y] /\ csv[f][x].line = n
        <5>1. Holds(csv[f], dealt[y], n)
          BY <2>7, <3>2, Zenon
        <5>. QED BY <5>1 DEF Holds
      <4>2. <<csv[f][x].file, csv[f][x].line>> \in {<<csv[f][z].file, csv[f][z].line>> : z \in DOMAIN csv[f]}
        OBVIOUS
      <4>. QED BY <4>1, <4>2
    <3>. QED BY <3>1, <3>2
  <2>9. \A x, y \in DOMAIN csv[f] : x < y => \/ Pos(csv[f][x].file) < Pos(csv[f][y].file)
                                             \/ csv[f][x].file = csv[f][y].file /\ csv[f][x].line < csv[f][y].line
    <3>. HIDE DEF Pos
    <3>. QED BY <2>1, <2>4 DEF Table, Sorted
  <2>. QED BY <2>8, <2>9
<1>5. DealtIfRead
  <2>. SUFFICES ASSUME pc = "end", saveFile PROVE DOMAIN csv = {f \in Files : Kind[f] # "neither"}
    BY DEF DealtIfRead
  <2>1. \A f \in Files : Kind[f] # "neither" => f \in DOMAIN csv
    BY DEF MroInv, DealtInv, CsvInv, Busy
  <2>. QED BY <1>1, <2>1
<1>. QED BY <1>2, <1>3, <1>4, <1>5 DEF TablesHoldTheirRows

\* Every row of every table is written with its own object and counts, every table
\* holds the rows of its file and of those of its kind before it, and no file that
\* can be read is passed over: for any number of files, in every order, with any text.
THEOREM TablesSound == Spec => []TablesHoldTheirRows
  BY MroInit, MroStep, MroSound, PTL DEF Spec

----------------------------------------------------------------------
(***************************************************************************)
(* ReverseList, for every length.  The list is known in closed form: what  *)
(* every node points to while the list is made (MadeTo), reversed up to    *)
(* node p1 (TurnedAt) and freed down to node p (LeftTo).  Walk is a        *)
(* recursive function; a function that satisfies its equation is the only  *)
(* one (WalkIs).                                                           *)
(***************************************************************************)

\* The equation of Walk.
Follows(a, n, g) == g = [x \in 1 .. n |-> IF x = 1 THEN a ELSE IF g[x - 1] = Nil THEN Nil ELSE next[g[x - 1]]]

\* A function that satisfies the equation of Walk is Walk.
LEMMA WalkIs ==
  ASSUME NEW a, NEW n \in Nat, NEW g, Follows(a, n, g)
  PROVE  List!Walk(a, n) = g
<1>1. Follows(a, n, List!Walk(a, n))
  <2>. DEFINE w == CHOOSE h : Follows(a, n, h)
  <2>1. Follows(a, n, w)
    OBVIOUS
  <2>2. List!Walk(a, n) = w
    BY Zenon DEF List!Walk, Follows
  <2>. QED BY <2>1, <2>2
<1>. DEFINE w == List!Walk(a, n)
            Bad == {x \in 1 .. n : w[x] # g[x]}
<1>. HIDE DEF w
<1>2. /\ w = [x \in 1 .. n |-> IF x = 1 THEN a ELSE IF w[x - 1] = Nil THEN Nil ELSE next[w[x - 1]]]
      /\ g = [x \in 1 .. n |-> IF x = 1 THEN a ELSE IF g[x - 1] = Nil THEN Nil ELSE next[g[x - 1]]]
  BY <1>1 DEF Follows, w
<1>3. ASSUME Bad # {} PROVE FALSE
  <2>1. PICK x \in Bad : \A y \in Bad : x <= y
    <3>1. Bad \in SUBSET Nat
      OBVIOUS
    <3>. QED BY <1>3, <3>1, LeastNat
  <2>2. x = 1 \/ x - 1 \in 1 .. n
    OBVIOUS
  <2>3. x # 1 => w[x - 1] = g[x - 1]
    BY <2>1, <2>2
  <2>4. /\ w[x] = IF x = 1 THEN a ELSE IF w[x - 1] = Nil THEN Nil ELSE next[w[x - 1]]
        /\ g[x] = IF x = 1 THEN a ELSE IF g[x - 1] = Nil THEN Nil ELSE next[g[x - 1]]
    BY <1>2
  <2>. QED BY <2>3, <2>4
<1>4. w = g
  <2>1. \A x \in 1 .. n : w[x] = g[x]
    BY <1>3
  <2>2. w = [x \in 1 .. n |-> w[x]] /\ g = [x \in 1 .. n |-> g[x]]
    BY <1>2
  <2>. QED BY <2>1, <2>2
<1>. QED BY <1>4 DEF w

Nodes == 0 .. cnt - 1

MadeTo == \/ pList = Nil /\ DOMAIN next = {} /\ p = Nil
          \/ /\ pList \in Nodes /\ p = 0
             /\ DOMAIN next = 0 .. pList /\ next[pList] = Nil
             /\ \A x \in Nodes : x < pList => next[x] = x + 1

TurnedAt == /\ p = 0 /\ p1 \in Nodes /\ DOMAIN next = Nodes
            /\ next[0] = IF p1 + 1 < cnt THEN p1 + 1 ELSE Nil
            /\ \A x \in Nodes : x # 0 => next[x] = IF x <= p1 THEN x - 1 ELSE IF x + 1 < cnt THEN x + 1 ELSE Nil

LeftTo == \/ p = Nil /\ DOMAIN next = {}
          \/ /\ p \in Nodes /\ DOMAIN next = 0 .. p
             /\ \A x \in Nodes : x <= p => next[x] = IF x = 0 THEN Nil ELSE x - 1

ListInv == /\ cnt \in Cnt /\ pc6 \in {"construct", "reverse", "distory"}
           /\ {p1, pList} \subseteq Nodes \cup {Nil}
           /\ pc6 = "construct" => MadeTo
           /\ pc6 = "reverse" => TurnedAt
           /\ pc6 = "distory" => LeftTo

\* What the assumption says of the list.
LEMMA ListConstants == \A n \in Cnt : n \in Nat \ {0} /\ \A x \in 0 .. n - 1 : x # Nil
  BY SequentialAssumption DEF List!CntAssumption

\* There is no list yet.
LEMMA ListInit == List!Init => ListInv
  BY DEF List!Init, ListInv, MadeTo

\* Every step of the three functions keeps the closed form.
LEMMA ListStep == ListInv /\ [List!Next]_(List!vars) => ListInv'
<1>. SUFFICES ASSUME ListInv, [List!Next]_(List!vars) PROVE ListInv'
  OBVIOUS
<1>0. cnt \in Nat \ {0} /\ (\A x \in Nodes : x # Nil) /\ 0 \in Nodes /\ cnt - 1 \in Nodes
  BY ListConstants DEF ListInv, Nodes
<1>1. CASE List!construct
  <2>0. pc6 = "construct" /\ pc6' = pc6 /\ cnt' = cnt /\ p1' = p1 /\ pList' = List!Count /\ List!Count < cnt /\ MadeTo
    BY <1>1 DEF List!construct, ListInv
  <2>1. CASE pList = Nil
    <3>1. List!Count = 0 /\ next' = List!New(next, 0) /\ p' = 0 /\ DOMAIN next = {}
      BY <1>0, <1>1, <2>0, <2>1 DEF List!construct, List!Count, MadeTo
    <3>2. DOMAIN next' = {0} /\ next'[0] = Nil
      BY <3>1 DEF List!New
    <3>3. 0 .. 0 = {0} /\ \A x \in Nodes : ~(x < 0)
      BY <1>0 DEF Nodes
    <3>4. MadeTo'
      BY <1>0, <2>0, <3>1, <3>2, <3>3 DEF MadeTo, Nodes
    <3>. QED BY <1>0, <2>0, <3>1, <3>4 DEF ListInv, Nodes
  <2>2. CASE pList # Nil
    <3>1. /\ pList \in Nodes /\ p = 0 /\ DOMAIN next = 0 .. pList /\ next[pList] = Nil
          /\ \A x \in Nodes : x < pList => next[x] = x + 1
      BY <2>0, <2>2 DEF MadeTo
    <3>2. pList \in Nat /\ List!Count = pList + 1 /\ List!Count \in Nodes /\ p' = p
          /\ next' = List!New([next EXCEPT ![pList] = pList + 1], pList + 1)
      BY <1>0, <1>1, <2>0, <2>2, <3>1 DEF List!construct, List!Count, Nodes
    <3>3. /\ DOMAIN next' = 0 .. pList + 1 /\ next'[pList + 1] = Nil
          /\ \A x \in 0 .. pList : next'[x] = IF x = pList THEN pList + 1 ELSE next[x]
      BY <3>1, <3>2 DEF List!New
    <3>4. \A x \in Nodes : x < pList + 1 => next'[x] = x + 1
      <4>. SUFFICES ASSUME NEW x \in Nodes, x < pList + 1 PROVE next'[x] = x + 1
        OBVIOUS
      <4>1. x \in 0 .. pList /\ (x = pList \/ x < pList)
        BY <1>0, <3>1, <3>2 DEF Nodes
      <4>2. CASE x = pList
        BY <3>3, <4>1, <4>2
      <4>3. CASE x # pList
        <5>1. next'[x] = next[x] /\ x < pList
          BY <3>3, <4>1, <4>3
        <5>. QED BY <3>1, <5>1
      <4>. QED BY <4>2, <4>3
    <3>5. MadeTo'
      BY <2>0, <3>1, <3>2, <3>3, <3>4 DEF MadeTo, Nodes
    <3>. QED BY <2>0, <3>2, <3>5 DEF ListInv, Nodes
  <2>. QED BY <2>1, <2>2
<1>2. CASE List!Constructed
  <2>0. /\ pc6 = "construct" /\ pc6' = "reverse" /\ cnt' = cnt /\ next' = next /\ p' = p /\ p1' = p /\ pList' = pList
        /\ List!Count = cnt /\ MadeTo
    BY <1>2 DEF List!Constructed, ListInv
  <2>1. pList # Nil
    BY <1>0, <2>0 DEF List!Count
  <2>2. /\ pList \in Nodes /\ p = 0 /\ DOMAIN next = 0 .. pList /\ next[pList] = Nil
        /\ \A x \in Nodes : x < pList => next[x] = x + 1
    BY <2>0, <2>1 DEF MadeTo
  <2>3. pList = cnt - 1
    BY <1>0, <2>0, <2>1, <2>2 DEF List!Count, Nodes
  <2>4. \A x \in Nodes : next[x] = IF x + 1 < cnt THEN x + 1 ELSE Nil
    BY <1>0, <2>2, <2>3 DEF Nodes
  <2>5. TurnedAt'
    BY <1>0, <2>0, <2>2, <2>3, <2>4 DEF TurnedAt, Nodes
  <2>. QED BY <1>0, <2>0, <2>2, <2>5 DEF ListInv, Nodes
<1>3. CASE List!reverse
  <2>. DEFINE p2 == next[p]
  <2>0. /\ pc6 = "reverse" /\ pc6' = pc6 /\ cnt' = cnt /\ p' = p /\ pList' = pList /\ p1' = p2 /\ p2 # Nil
        /\ next' = [next EXCEPT ![p] = next[p2], ![p2] = p1] /\ TurnedAt
    BY <1>3 DEF List!reverse, ListInv
  <2>1. p = 0 /\ p1 \in Nat /\ p2 = p1 + 1 /\ p1 + 1 < cnt /\ p1 + 1 \in Nodes
    BY <1>0, <2>0 DEF TurnedAt, Nodes
  <2>2. DOMAIN next' = Nodes /\ next'[0] = next[p1 + 1] /\ next'[p1 + 1] = p1
        /\ \A x \in Nodes : x # 0 /\ x # p1 + 1 => next'[x] = next[x]
    BY <1>0, <2>0, <2>1 DEF TurnedAt
  <2>3. next[p1 + 1] = IF p1 + 2 < cnt THEN p1 + 2 ELSE Nil
    BY <2>0, <2>1 DEF TurnedAt
  <2>4. \A x \in Nodes : x # 0 => next'[x] = IF x <= p1 + 1 THEN x - 1 ELSE IF x + 1 < cnt THEN x + 1 ELSE Nil
    BY <2>0, <2>1, <2>2 DEF TurnedAt, Nodes
  <2>5. (p1 + 1) + 1 = p1 + 2
    BY <2>1
  <2>6. TurnedAt'
    BY <2>0, <2>1, <2>2, <2>3, <2>4, <2>5 DEF TurnedAt, Nodes
  <2>. QED BY <2>0, <2>1, <2>6 DEF ListInv, Nodes
<1>4. CASE List!Reversed
  <2>0. /\ pc6 = "reverse" /\ pc6' = "distory" /\ cnt' = cnt /\ p' = p1 /\ pList' = pList /\ p1' = p1 /\ next' = next
        /\ next[p] = Nil /\ TurnedAt
    BY <1>4 DEF List!Reversed, ListInv
  <2>1. p = 0 /\ p1 \in Nodes /\ ~(p1 + 1 < cnt)
    BY <1>0, <2>0 DEF TurnedAt, Nodes
  <2>2. p1 = cnt - 1 /\ DOMAIN next = 0 .. p1
    BY <1>0, <2>0, <2>1 DEF TurnedAt, Nodes
  <2>3. \A x \in Nodes : next[x] = IF x = 0 THEN Nil ELSE x - 1
    BY <1>0, <2>0, <2>1, <2>2 DEF TurnedAt, Nodes
  <2>4. LeftTo'
    BY <2>0, <2>1, <2>2, <2>3 DEF LeftTo, Nodes
  <2>. QED BY <2>0, <2>1, <2>4 DEF ListInv, Nodes
<1>5. CASE List!distory
  <2>0. /\ pc6 = "distory" /\ pc6' = pc6 /\ cnt' = cnt /\ pList' = pList /\ p1' = p1 /\ p # Nil
        /\ p' = next[p] /\ next' = [x \in DOMAIN next \ {p} |-> next[x]] /\ LeftTo
    BY <1>5 DEF List!distory, ListInv, List!Restrict
  <2>1. /\ p \in Nodes /\ DOMAIN next = 0 .. p
        /\ \A x \in Nodes : x <= p => next[x] = IF x = 0 THEN Nil ELSE x - 1
    BY <2>0 DEF LeftTo
  <2>2. CASE p = 0
    <3>1. p' = Nil /\ DOMAIN next' = {}
      BY <1>0, <2>0, <2>1, <2>2
    <3>. QED BY <2>0, <3>1 DEF ListInv, LeftTo, Nodes
  <2>3. CASE p # 0
    <3>1. p' = p - 1 /\ p - 1 \in Nodes /\ DOMAIN next \ {p} = 0 .. p - 1
      BY <1>0, <2>0, <2>1, <2>3 DEF Nodes
    <3>2. DOMAIN next' = 0 .. p - 1 /\ \A x \in 0 .. p - 1 : next'[x] = next[x]
      BY <2>0, <3>1
    <3>3. \A x \in Nodes : x <= p - 1 => next'[x] = IF x = 0 THEN Nil ELSE x - 1
      BY <1>0, <2>1, <3>2 DEF Nodes
    <3>4. LeftTo'
      BY <2>0, <3>1, <3>2, <3>3 DEF LeftTo, Nodes
    <3>. QED BY <2>0, <3>4 DEF ListInv, Nodes
  <2>. QED BY <2>2, <2>3
<1>6. CASE List!Ended \/ UNCHANGED List!vars
  BY <1>6 DEF List!Ended, List!vars, ListInv, MadeTo, TurnedAt, LeftTo, Nodes
<1>. QED BY <1>1, <1>2, <1>3, <1>4, <1>5, <1>6 DEF List!Next

\* The list that was being reversed is one list, of all nodes.
LEMMA TurnedWalk == ASSUME ListInv, pc6 = "reverse" PROVE List!SplitAtP
<1>. DEFINE g == [x \in 1 .. cnt + 1 |-> IF x = cnt + 1 THEN Nil ELSE IF x <= p1 + 1 THEN p1 + 1 - x ELSE x - 1]
<1>0. cnt \in Nat \ {0} /\ (\A x \in Nodes : x # Nil) /\ TurnedAt /\ p1 \in Nat /\ p1 < cnt /\ p = 0
  BY ListConstants DEF ListInv, Nodes, TurnedAt
<1>1. /\ DOMAIN g = 1 .. cnt + 1 /\ g = [x \in 1 .. cnt + 1 |-> g[x]]
      /\ g[cnt + 1] = Nil /\ \A x \in 1 .. cnt : g[x] = IF x <= p1 + 1 THEN p1 + 1 - x ELSE x - 1
  BY <1>0
<1>. HIDE DEF g
<1>2. \A x \in 1 .. cnt : g[x] \in Nodes /\ g[x] # Nil
  <2>1. ASSUME NEW x \in 1 .. cnt PROVE g[x] \in Nodes
    <3>1. x <= p1 + 1 => p1 + 1 - x \in Nodes
      BY <1>0 DEF Nodes
    <3>2. x - 1 \in Nodes
      BY <1>0 DEF Nodes
    <3>. QED BY <1>1, <3>1, <3>2
  <2>. QED BY <1>0, <2>1
<1>3. \A x \in 1 .. cnt : next[g[x]] = g[x + 1]
  <2>. SUFFICES ASSUME NEW x \in 1 .. cnt PROVE next[g[x]] = g[x + 1]
    OBVIOUS
  <2>0. /\ next[0] = IF p1 + 1 < cnt THEN p1 + 1 ELSE Nil
        /\ \A y \in Nodes : y # 0 => next[y] = IF y <= p1 THEN y - 1 ELSE IF y + 1 < cnt THEN y + 1 ELSE Nil
    BY <1>0 DEF TurnedAt
  <2>1. CASE x <= p1
    <3>0. x <= p1 + 1 /\ x + 1 <= p1 + 1 /\ x + 1 \in 1 .. cnt /\ p1 + 1 - x \in Nodes
      BY <1>0, <2>1 DEF Nodes
    <3>1. g[x] = p1 + 1 - x /\ g[x + 1] = p1 + 1 - (x + 1) /\ p1 + 1 - x \in Nodes
      BY <1>1, <3>0
    <3>2. p1 + 1 - x # 0 /\ p1 + 1 - x <= p1 /\ (p1 + 1 - x) - 1 = p1 + 1 - (x + 1)
      BY <1>0, <2>1
    <3>. QED BY <2>0, <3>1, <3>2
  <2>2. CASE x = p1 + 1
    <3>0. x <= p1 + 1 /\ p1 + 1 - x = 0 /\ ~(x + 1 <= p1 + 1) /\ (x + 1) - 1 = x /\ (x < cnt => x + 1 \in 1 .. cnt)
          /\ (x < cnt <=> x # cnt)
      BY <1>0, <2>2
    <3>1. g[x] = 0 /\ (x < cnt => g[x + 1] = x) /\ (x = cnt => g[x + 1] = Nil)
      BY <1>1, <3>0
    <3>. QED BY <1>0, <2>0, <2>2, <3>0, <3>1
  <2>3. CASE x > p1 + 1
    <3>0. /\ ~(x <= p1 + 1) /\ x - 1 \in Nodes /\ x - 1 # 0 /\ ~(x - 1 <= p1) /\ (x - 1) + 1 = x
          /\ ~(x + 1 <= p1 + 1) /\ (x + 1) - 1 = x /\ (x < cnt => x + 1 \in 1 .. cnt) /\ (x < cnt <=> x # cnt)
      BY <1>0, <2>3 DEF Nodes
    <3>1. g[x] = x - 1 /\ (x < cnt => g[x + 1] = x) /\ (x = cnt => g[x + 1] = Nil)
      BY <1>1, <3>0
    <3>. QED BY <2>0, <3>0, <3>1
  <2>. QED BY <1>0, <2>1, <2>2, <2>3
<1>4. Follows(p1, cnt + 1, g)
  <2>1. \A x \in 1 .. cnt + 1 : g[x] = IF x = 1 THEN p1 ELSE IF g[x - 1] = Nil THEN Nil ELSE next[g[x - 1]]
    <3>. SUFFICES ASSUME NEW x \in 1 .. cnt + 1
                  PROVE  g[x] = IF x = 1 THEN p1 ELSE IF g[x - 1] = Nil THEN Nil ELSE next[g[x - 1]]
      OBVIOUS
    <3>1. CASE x = 1
      <4>1. 1 \in 1 .. cnt /\ 1 <= p1 + 1 /\ p1 + 1 - 1 = p1
        BY <1>0
      <4>. QED BY <1>1, <3>1, <4>1
    <3>2. CASE x # 1
      <4>1. x - 1 \in 1 .. cnt /\ (x - 1) + 1 = x
        BY <1>0, <3>2
      <4>. QED BY <1>2, <1>3, <3>2, <4>1
    <3>. QED BY <3>1, <3>2
  <2>. QED BY <1>1, <2>1 DEF Follows
<1>5. List!Walk(p1, cnt + 1) = g
  <2>1. cnt + 1 \in Nat
    BY <1>0
  <2>. QED BY <1>4, <2>1, WalkIs
<1>6. g[p1 + 1] = p
  <2>1. p1 + 1 \in 1 .. cnt /\ p1 + 1 <= p1 + 1 /\ p1 + 1 - (p1 + 1) = 0
    BY <1>0
  <2>. QED BY <1>0, <1>1, <2>1
<1>. QED BY <1>0, <1>1, <1>5, <1>6 DEF List!SplitAtP

\* What is left to be freed is what p reaches.
LEMMA LeftWalk == ASSUME ListInv, pc6 = "distory" PROVE List!FreesAll
<1>0. cnt \in Nat \ {0} /\ (\A x \in Nodes : x # Nil) /\ LeftTo
  BY ListConstants DEF ListInv, Nodes
<1>1. cnt + 1 \in Nat /\ 1 \in 1 .. cnt + 1
  BY <1>0
<1>2. CASE p = Nil
  <2>. DEFINE g == [x \in 1 .. cnt + 1 |-> Nil]
  <2>1. Follows(p, cnt + 1, g)
    <3>1. \A x \in 1 .. cnt + 1 : x # 1 => x - 1 \in 1 .. cnt + 1
      BY <1>0
    <3>. QED BY <1>2, <3>1 DEF Follows
  <2>2. List!Walk(p, cnt + 1) = g
    BY <1>1, <2>1, WalkIs
  <2>3. DOMAIN next = {}
    BY <1>0, <1>2 DEF LeftTo
  <2>4. {g[x] : x \in 1 .. cnt + 1} \ {Nil} = {}
    OBVIOUS
  <2>. HIDE DEF g
  <2>. QED BY <2>2, <2>3, <2>4 DEF List!FreesAll
<1>3. CASE p # Nil
  <2>. DEFINE g == [x \in 1 .. cnt + 1 |-> IF x <= p + 1 THEN p + 1 - x ELSE Nil]
  <2>0. /\ p \in Nat /\ p < cnt /\ DOMAIN next = 0 .. p
        /\ \A x \in Nodes : x <= p => next[x] = IF x = 0 THEN Nil ELSE x - 1
    BY <1>0, <1>3 DEF LeftTo, Nodes
  <2>1. DOMAIN g = 1 .. cnt + 1 /\ g = [x \in 1 .. cnt + 1 |-> g[x]]
        /\ \A x \in 1 .. cnt + 1 : g[x] = IF x <= p + 1 THEN p + 1 - x ELSE Nil
    OBVIOUS
  <2>. HIDE DEF g
  <2>2. \A x \in 1 .. cnt + 1 : x <= p + 1 => g[x] = p + 1 - x /\ g[x] \in 0 .. p /\ g[x] \in Nodes /\ g[x] # Nil
    <3>1. \A x \in 1 .. cnt + 1 : x <= p + 1 => p + 1 - x \in 0 .. p /\ p + 1 - x \in Nodes
      BY <2>0, <1>0 DEF Nodes
    <3>. QED BY <1>0, <2>1, <3>1
  <2>3. \A x \in 1 .. cnt + 1 : g[x] = IF x = 1 THEN p ELSE IF g[x - 1] = Nil THEN Nil ELSE next[g[x - 1]]
    <3>. SUFFICES ASSUME NEW x \in 1 .. cnt + 1
                  PROVE  g[x] = IF x = 1 THEN p ELSE IF g[x - 1] = Nil THEN Nil ELSE next[g[x - 1]]
      OBVIOUS
    <3>1. CASE x = 1
      <4>1. 1 <= p + 1 /\ p + 1 - 1 = p
        BY <2>0
      <4>. QED BY <2>1, <3>1, <4>1
    <3>2. CASE x # 1 /\ x <= p + 1
      <4>1. x - 1 \in 1 .. cnt + 1 /\ x - 1 <= p + 1
        BY <1>0, <2>0, <3>2
      <4>2. g[x - 1] = p + 1 - (x - 1) /\ g[x - 1] # Nil /\ g[x - 1] \in Nodes
        BY <2>2, <4>1
      <4>3. g[x - 1] # 0 /\ g[x - 1] <= p /\ g[x - 1] - 1 = p + 1 - x
        BY <2>0, <3>2, <4>2
      <4>. QED BY <2>0, <2>1, <3>2, <4>2, <4>3
    <3>3. CASE x = p + 2
      <4>1. x - 1 \in 1 .. cnt + 1 /\ x - 1 <= p + 1 /\ p + 1 - (x - 1) = 0 /\ ~(x <= p + 1) /\ x # 1
        BY <1>0, <2>0, <3>3
      <4>2. g[x - 1] = 0 /\ g[x - 1] # Nil
        BY <2>2, <4>1
      <4>3. next[0] = Nil
        BY <1>0, <2>0 DEF Nodes
      <4>. QED BY <2>1, <4>1, <4>2, <4>3
    <3>4. CASE x > p + 2
      <4>1. x - 1 \in 1 .. cnt + 1 /\ ~(x - 1 <= p + 1) /\ ~(x <= p + 1) /\ x # 1
        BY <1>0, <2>0, <3>4
      <4>. QED BY <2>1, <4>1
    <3>. QED BY <2>0, <3>1, <3>2, <3>3, <3>4
  <2>4. List!Walk(p, cnt + 1) = g
    <3>1. Follows(p, cnt + 1, g)
      BY <2>1, <2>3 DEF Follows
    <3>. QED BY <1>1, <3>1, WalkIs
  <2>5. {g[x] : x \in 1 .. cnt + 1} \ {Nil} = 0 .. p
    <3>1. ASSUME NEW y \in 0 .. p PROVE \E x \in 1 .. cnt + 1 : g[x] = y /\ g[x] # Nil
      <4>1. p + 1 - y \in 1 .. cnt + 1 /\ p + 1 - y <= p + 1 /\ p + 1 - (p + 1 - y) = y
        BY <1>0, <2>0
      <4>. QED BY <2>2, <4>1
    <3>2. ASSUME NEW x \in 1 .. cnt + 1, g[x] # Nil PROVE g[x] \in 0 .. p
      BY <2>1, <2>2, <3>2
    <3>. QED BY <3>1, <3>2
  <2>. QED BY <2>0, <2>4, <2>5 DEF List!FreesAll
<1>. QED BY <1>2, <1>3

\* A list of any length is reversed without a node being lost or reached twice, and
\* what is left to be freed is what p reaches: every node is freed once.
THEOREM ListSound == List!Spec => [](List!TypeOK /\ List!SplitAtP /\ List!FreesAll)
<1>1. ListInv => List!TypeOK
  <2>. SUFFICES ASSUME ListInv PROVE List!TypeOK
    OBVIOUS
  <2>0. cnt \in Nat \ {0} /\ 0 \in Nodes
    BY ListConstants DEF ListInv, Nodes
  <2>1. DOMAIN next \subseteq Nodes /\ \A x \in DOMAIN next : next[x] \in Nodes \cup {Nil}
    <3>1. CASE pc6 = "construct"
      BY <2>0, <3>1 DEF ListInv, MadeTo, Nodes
    <3>2. CASE pc6 = "reverse"
      BY <2>0, <3>2 DEF ListInv, TurnedAt, Nodes
    <3>3. CASE pc6 = "distory"
      BY <2>0, <3>3 DEF ListInv, LeftTo, Nodes
    <3>. QED BY <3>1, <3>2, <3>3 DEF ListInv
  <2>2. p \in Nodes \cup {Nil}
    BY <2>0 DEF ListInv, MadeTo, TurnedAt, LeftTo
  <2>. QED BY <2>1, <2>2 DEF ListInv, List!TypeOK, Nodes, List!Range
<1>2. ListInv => List!SplitAtP /\ List!FreesAll
  BY TurnedWalk, LeftWalk DEF List!SplitAtP, List!FreesAll
<1>. QED BY <1>1, <1>2, ListInit, ListStep, PTL DEF List!Spec

----------------------------------------------------------------------
(***************************************************************************)
(* Sort, for every array.  The array with the pivot in its hole (Whole)    *)
(* only ever has two of its elements exchanged (Exchanged), so nothing is  *)
(* lost.  bubble_sort and selection_sort keep what they are through with   *)
(* (BubbleInv, SelectInv).  Of quick_sort: two elements that no call to    *)
(* come has in its range are in order, and different (Apart); the ranges   *)
(* do not overlap, so that exchanges within the first of them leave the    *)
(* others alone; and what my_partition has passed is on the pivot's sides  *)
(* (PartInv), which makes the two ranges that come of it Apart.            *)
(***************************************************************************)

\* The arrays of n elements.
SortArrays(n) == [0 .. n - 1 -> SortValues]

\* h is g with elements a and b exchanged.
Exchanged(n, g, h, a, b) == /\ h \in SortArrays(n) /\ h[a] = g[b] /\ h[b] = g[a]
                            /\ \A z \in 0 .. n - 1 : z \notin {a, b} => h[z] = g[z]

\* Both places are in the range of one call.
Within(call, x) == call[1] <= x /\ x <= call[2]
Together(q, x, y) == \E z \in DOMAIN q : Within(q[z], x) /\ Within(q[z], y)
Apart(n, g, q) == \A x, y \in 0 .. n - 1 : x < y => g[x] < g[y] \/ Together(q, x, y)
NoOverlap(q) == \A y, z \in DOMAIN q : y # z => \A x \in Int : ~(Within(q[y], x) /\ Within(q[z], x))
CallRanges(n) == (0 .. n) \X (-1 .. n - 1)

SortTypes(n) == /\ n \in Nat /\ arr \in SortArrays(n) /\ given \in SortArrays(n)
                /\ pc5 \in {"bubble", "selection", "quick", "down", "up", "placed", "end"}
                /\ i \in 0 .. n /\ j \in 0 .. n + 1 /\ k \in 0 .. n /\ low \in 0 .. n /\ high \in 0 .. n
                /\ calls \in Seq(CallRanges(n))

BubbleInv(n) == pc5 = "bubble" =>
    /\ calls # <<>>
    /\ i < n => j <= n - i - 1
    /\ \A x, y \in 0 .. n - 1 : y < x /\ n - i <= x => arr[y] <= arr[x]
    /\ i < n => \A y \in 0 .. n - 1 : y < j => arr[y] <= arr[j]

SelectInv(n) == pc5 = "selection" =>
    /\ calls # <<>>
    /\ \A x, y \in 0 .. n - 1 : y < x /\ y < i => arr[y] <= arr[x]
    /\ i < n => /\ i <= k /\ k < j /\ j <= n
                /\ \A y \in 0 .. n - 1 : i <= y /\ y < j => arr[k] <= arr[y]

QuickInv(n) == pc5 \in {"quick", "down", "up", "placed"} => NoOverlap(calls) /\ Apart(n, Arrays!Whole, calls)

PartInv(n) == pc5 \in {"down", "up", "placed"} =>
    /\ calls # <<>> /\ flag \in SortValues
    /\ calls[1][1] <= low /\ low <= high /\ high <= calls[1][2]
    /\ \A x \in 0 .. n - 1 : calls[1][1] <= x /\ x < low => arr[x] < flag
    /\ \A x \in 0 .. n - 1 : high < x /\ x <= calls[1][2] => flag < arr[x]
    /\ pc5 = "placed" => low = high

EndInv(n) == pc5 = "end" => \A x, y \in 0 .. n - 1 : y < x => arr[y] <= arr[x] /\ (calls = <<>> => arr[y] < arr[x])

LostInv(n) == \A val : Count(Arrays!Whole, n, val) = Count(given, n, val)

SortInvOf(n) == SortTypes(n) /\ BubbleInv(n) /\ SelectInv(n) /\ QuickInv(n) /\ PartInv(n) /\ EndInv(n) /\ LostInv(n)
SortInv == \E n \in Nat : SortInvOf(n)

\* What the assumption says of the arrays.
LEMMA SortConstants == SortValues \subseteq Int /\ MaxCnt \in Nat
  BY SequentialAssumption DEF Arrays!SortAssumption

\* The cardinality of the instance is that of the module.
LEMMA SameSortCardinality == \A S : Arrays!Cardinality(S) = Cardinality(S)
  BY Zenon DEF Arrays!Cardinality, Cardinality, Arrays!IsFiniteSet, IsFiniteSet

\* The length of the array.
LEMMA LengthIs == ASSUME NEW n \in Nat, NEW g \in SortArrays(n) PROVE Arrays!Cardinality(DOMAIN g) = n /\ DOMAIN g = 0 .. n - 1
<1>1. DOMAIN g = 0 .. n - 1
  BY DEF SortArrays
<1>2. 0 \in Int /\ n - 1 \in Int
  OBVIOUS
<1>3. Cardinality(0 .. n - 1) = IF 0 > n - 1 THEN 0 ELSE (n - 1) - 0 + 1
  BY <1>2, FS_Interval
<1>4. Cardinality(0 .. n - 1) = n
  BY <1>3
<1>. QED BY <1>1, <1>4, SameSortCardinality

\* An exchange loses no element.
LEMMA ExchangedCount ==
  ASSUME NEW n \in Nat, NEW g, NEW h, NEW a \in 0 .. n - 1, NEW b \in 0 .. n - 1, Exchanged(n, g, h, a, b), NEW val
  PROVE  Count(h, n, val) = Count(g, n, val)
<1>1. CASE a = b
  <2>1. Agree(n, g, h)
    BY <1>1 DEF Exchanged, Agree
  <2>. QED BY <2>1, CountAgrees
<1>2. CASE a # b
  <2>1. Crossed(n, g, h, a, b)
    BY Zenon DEF Exchanged, Crossed
  <2>. QED BY <1>2, <2>1, CountSwapped
<1>. QED BY <1>1, <1>2

\* An exchange within the range of the first call keeps the rest apart.
LEMMA ExchangedApart ==
  ASSUME NEW n \in Nat, NEW g, NEW h, NEW a \in 0 .. n - 1, NEW b \in 0 .. n - 1, Exchanged(n, g, h, a, b),
         NEW q \in Seq(CallRanges(n)), q # <<>>, Within(q[1], a), Within(q[1], b), NoOverlap(q), Apart(n, g, q)
  PROVE  Apart(n, h, q)
<1>. SUFFICES ASSUME NEW x \in 0 .. n - 1, NEW y \in 0 .. n - 1, x < y, ~Together(q, x, y) PROVE h[x] < h[y]
  BY DEF Apart
<1>. DEFINE To(z) == IF z = a THEN b ELSE IF z = b THEN a ELSE z
<1>0. 1 \in DOMAIN q /\ q[1][1] \in Int /\ q[1][2] \in Int
  BY DEF CallRanges
<1>1. ~(Within(q[1], x) /\ Within(q[1], y))
  BY <1>0 DEF Together
<1>2. \A z \in 0 .. n - 1 : To(z) \in 0 .. n - 1 /\ h[z] = g[To(z)] /\ (To(z) # z => Within(q[1], z) /\ Within(q[1], To(z)))
  BY DEF Exchanged
<1>. HIDE DEF To
<1>3. To(x) < To(y)
  <2>0. x \in Int /\ y \in Int /\ To(x) \in Int /\ To(y) \in Int
    BY <1>2
  <2>1. CASE To(x) = x /\ To(y) = y
    BY <2>1
  <2>2. CASE To(x) # x
    <3>1. Within(q[1], x) /\ Within(q[1], To(x)) /\ ~Within(q[1], y)
      BY <1>1, <1>2, <2>2
    <3>2. To(y) = y
      BY <1>2, <3>1
    <3>. QED BY <1>0, <2>0, <3>1, <3>2 DEF Within
  <2>3. CASE To(y) # y
    <3>1. Within(q[1], y) /\ Within(q[1], To(y)) /\ ~Within(q[1], x)
      BY <1>1, <1>2, <2>3
    <3>2. To(x) = x
      BY <1>2, <3>1
    <3>. QED BY <1>0, <2>0, <3>1, <3>2 DEF Within
  <2>. QED BY <2>1, <2>2, <2>3
<1>4. ~Together(q, To(x), To(y))
  <2>. SUFFICES ASSUME NEW z \in DOMAIN q, Within(q[z], To(x)), Within(q[z], To(y)) PROVE FALSE
    BY DEF Together
  <2>1. CASE To(x) = x /\ To(y) = y
    BY <2>1 DEF Together
  <2>2. CASE To(x) # x
    <3>1. Within(q[1], x) /\ Within(q[1], To(x)) /\ To(x) \in Int
      BY <1>2, <2>2
    <3>2. z = 1
      BY <1>0, <3>1 DEF NoOverlap
    <3>3. To(y) # y => Within(q[1], y)
      BY <1>2
    <3>. QED BY <1>1, <3>1, <3>2, <3>3
  <2>3. CASE To(y) # y
    <3>1. Within(q[1], y) /\ Within(q[1], To(y)) /\ To(y) \in Int
      BY <1>2, <2>3
    <3>2. z = 1
      BY <1>0, <3>1 DEF NoOverlap
    <3>3. To(x) # x => Within(q[1], x)
      BY <1>2
    <3>. QED BY <1>1, <3>1, <3>2, <3>3
  <2>. QED BY <2>1, <2>2, <2>3
<1>5. g[To(x)] < g[To(y)]
  BY <1>2, <1>3, <1>4 DEF Apart
<1>. QED BY <1>2, <1>5

\* The invariant holds at the call.
LEMMA SortInit == Arrays!Init => SortInv
<1>. SUFFICES ASSUME Arrays!Init PROVE SortInv
  OBVIOUS
<1>1. PICK n \in 0 .. MaxCnt : arr \in [0 .. n - 1 -> SortValues]
  BY DEF Arrays!Init
<1>2. n \in Nat /\ arr \in SortArrays(n) /\ given = arr
  BY <1>1, SortConstants DEF SortArrays, Arrays!Init
<1>3. Arrays!cnt = n
  BY <1>2, LengthIs DEF Arrays!cnt
<1>4. /\ pc5 \in {"bubble", "selection", "quick"} /\ i = 0 /\ j = (IF pc5 = "selection" THEN 1 ELSE 0) /\ k = 0
      /\ low = 0 /\ high = 0 /\ calls = <<<<0, n - 1>>>>
  BY <1>3 DEF Arrays!Init
<1>5. /\ calls \in Seq(CallRanges(n)) /\ calls # <<>> /\ DOMAIN calls = {1}
      /\ calls[1][1] = 0 /\ calls[1][2] = n - 1
  <2>1. <<0, n - 1>> \in CallRanges(n)
    BY <1>2 DEF CallRanges
  <2>. QED BY <1>4, <2>1
<1>6. SortTypes(n)
  BY <1>2, <1>4, <1>5 DEF SortTypes
<1>7. BubbleInv(n) /\ SelectInv(n)
  <2>1. \A x \in 0 .. n - 1 : x < 1 => x = 0
    BY <1>2
  <2>2. \A x \in 0 .. n - 1 : arr[x] <= arr[x]
    <3>1. \A x \in 0 .. n - 1 : arr[x] \in Int
      BY <1>2, SortConstants DEF SortArrays
    <3>. QED BY <3>1
  <2>3. \A x \in 0 .. n - 1 : ~(n <= x) /\ ~(x < 0)
    BY <1>2
  <2>4. BubbleInv(n)
    BY <1>2, <1>4, <1>5, <2>3 DEF BubbleInv
  <2>5. SelectInv(n)
    BY <1>2, <1>4, <1>5, <2>1, <2>2, <2>3 DEF SelectInv
  <2>. QED BY <2>4, <2>5
<1>9. NoOverlap(calls) /\ \A g : Apart(n, g, calls)
  <2>1. \A x, y \in 0 .. n - 1 : Together(calls, x, y)
    BY <1>2, <1>5 DEF Together, Within
  <2>. QED BY <1>5, <2>1 DEF NoOverlap, Apart
<1>10. QuickInv(n) /\ PartInv(n) /\ EndInv(n)
  BY <1>4, <1>9 DEF QuickInv, PartInv, EndInv
<1>11. LostInv(n)
  BY <1>2, <1>4 DEF LostInv, Arrays!Whole
<1>. QED BY <1>2, <1>6, <1>7, <1>10, <1>11 DEF SortInv, SortInvOf

\* What the steps use of the types.
LEMMA SortFacts ==
  ASSUME NEW n \in Nat, SortInvOf(n)
  PROVE  /\ Arrays!cnt = n /\ arr \in SortArrays(n) /\ DOMAIN arr = 0 .. n - 1
         /\ \A x \in 0 .. n - 1 : arr[x] \in SortValues /\ arr[x] \in Int
         /\ i \in 0 .. n /\ j \in 0 .. n + 1 /\ k \in 0 .. n
         /\ \A a, b \in 0 .. n - 1 : Exchanged(n, arr, Arrays!Swapped(a, b), a, b)
<1>1. arr \in SortArrays(n) /\ i \in 0 .. n /\ j \in 0 .. n + 1 /\ k \in 0 .. n
  BY DEF SortInvOf, SortTypes
<1>2. DOMAIN arr = 0 .. n - 1 /\ Arrays!cnt = n
  BY <1>1, LengthIs DEF Arrays!cnt
<1>3. \A x \in 0 .. n - 1 : arr[x] \in SortValues /\ arr[x] \in Int
  BY <1>1, SortConstants DEF SortArrays
<1>4. ASSUME NEW a \in 0 .. n - 1, NEW b \in 0 .. n - 1 PROVE Exchanged(n, arr, Arrays!Swapped(a, b), a, b)
  BY <1>1, <1>2, <1>3 DEF Exchanged, Arrays!Swapped, SortArrays
<1>. QED BY <1>1, <1>2, <1>3, <1>4

\* What a step of the first two sorts leaves alone.
LEMMA LoopKeeps ==
  ASSUME NEW n \in Nat, SortInvOf(n), pc5 \in {"bubble", "selection"}, pc5' \in {pc5, "end"},
         given' = given, low' = low, high' = high, calls' = calls,
         i' \in 0 .. n, j' \in 0 .. n + 1, k' \in 0 .. n,
         NEW a \in 0 .. n - 1, NEW b \in 0 .. n - 1, Exchanged(n, arr, arr', a, b) \/ arr' = arr
  PROVE  SortTypes(n)' /\ QuickInv(n)' /\ PartInv(n)' /\ LostInv(n)'
<1>1. arr' \in SortArrays(n)
  BY SortFacts DEF Exchanged
<1>2. SortTypes(n)'
  BY <1>1 DEF SortInvOf, SortTypes
<1>3. QuickInv(n)' /\ PartInv(n)'
  BY DEF QuickInv, PartInv
<1>4. Arrays!Whole = arr /\ Arrays!Whole' = arr'
  BY DEF Arrays!Whole
<1>5. \A val : Count(arr', n, val) = Count(arr, n, val)
  BY ExchangedCount
<1>6. LostInv(n)'
  BY <1>4, <1>5 DEF SortInvOf, LostInv
<1>. QED BY <1>2, <1>3, <1>6

\* A turn of the inner loop of bubble_sort, and the next pass.
LEMMA BubbleKeeps == ASSUME NEW n \in Nat, SortInvOf(n), Arrays!Bubble PROVE SortInvOf(n)'
<1>0. /\ pc5 = "bubble" /\ pc5' = pc5 /\ i < n /\ given' = given /\ k' = k /\ low' = low /\ high' = high
      /\ calls' = calls /\ i \in 0 .. n /\ j \in 0 .. n + 1 /\ k \in 0 .. n
      /\ \A x \in 0 .. n - 1 : arr[x] \in Int
      /\ Arrays!BubbleRange = n - i - 1
  BY SortFacts DEF Arrays!Bubble, Arrays!BubbleRange, Arrays!partition
<1>1. /\ calls # <<>> /\ j <= n - i - 1
      /\ \A x, y \in 0 .. n - 1 : y < x /\ n - i <= x => arr[y] <= arr[x]
      /\ \A y \in 0 .. n - 1 : y < j => arr[y] <= arr[j]
  BY <1>0 DEF SortInvOf, BubbleInv
<1>2. SelectInv(n)' /\ EndInv(n)'
  BY <1>0 DEF SelectInv, EndInv
<1>3. CASE j < n - i - 1
  <2>0. /\ arr' = (IF arr[j] > arr[j + 1] THEN Arrays!Swapped(j, j + 1) ELSE arr) /\ j' = j + 1 /\ i' = i
        /\ j \in 0 .. n - 1 /\ j + 1 \in 0 .. n - 1 /\ j + 1 <= n - i - 1
    BY <1>0, <1>3 DEF Arrays!Bubble
  <2>1. CASE arr[j] > arr[j + 1]
    <3>1. Exchanged(n, arr, arr', j, j + 1)
      BY <2>0, <2>1, SortFacts
    <3>2. /\ arr'[j] = arr[j + 1] /\ arr'[j + 1] = arr[j]
          /\ \A z \in 0 .. n - 1 : z \notin {j, j + 1} => arr'[z] = arr[z]
      BY <3>1 DEF Exchanged
    <3>3. ASSUME NEW x \in 0 .. n - 1, NEW y \in 0 .. n - 1, y < x, n - i <= x PROVE arr'[y] <= arr'[x]
      <4>1. arr'[x] = arr[x] /\ j < x /\ j + 1 < x
        BY <1>0, <2>0, <3>2, <3>3
      <4>2. arr[y] <= arr[x] /\ arr[j] <= arr[x] /\ arr[j + 1] <= arr[x]
        BY <1>1, <2>0, <3>3, <4>1
      <4>. QED BY <3>2, <4>1, <4>2
    <3>4. ASSUME NEW y \in 0 .. n - 1, y < j + 1 PROVE arr'[y] <= arr'[j + 1]
      <4>1. CASE y < j
        BY <1>0, <1>1, <2>0, <3>2, <4>1
      <4>2. CASE y = j
        BY <1>0, <2>0, <2>1, <3>2, <4>2
      <4>. QED BY <1>0, <2>0, <3>4, <4>1, <4>2
    <3>5. BubbleInv(n)'
      BY <1>0, <1>1, <2>0, <3>3, <3>4 DEF BubbleInv
    <3>6. SortTypes(n)' /\ QuickInv(n)' /\ PartInv(n)' /\ LostInv(n)'
      BY <1>0, <2>0, <3>1, LoopKeeps
    <3>. QED BY <1>2, <3>5, <3>6 DEF SortInvOf
  <2>2. CASE ~(arr[j] > arr[j + 1])
    <3>1. arr' = arr /\ arr[j] <= arr[j + 1]
      BY <1>0, <2>0, <2>2
    <3>2. ASSUME NEW y \in 0 .. n - 1, y < j + 1 PROVE arr[y] <= arr[j + 1]
      <4>1. arr[y] <= arr[j]
        BY <1>0, <1>1, <2>0, <3>2
      <4>. QED BY <1>0, <2>0, <3>1, <4>1
    <3>3. BubbleInv(n)'
      BY <1>0, <1>1, <2>0, <3>1, <3>2 DEF BubbleInv
    <3>4. SortTypes(n)' /\ QuickInv(n)' /\ PartInv(n)' /\ LostInv(n)'
      BY <1>0, <2>0, <3>1, LoopKeeps
    <3>. QED BY <1>2, <3>3, <3>4 DEF SortInvOf
  <2>. QED BY <2>1, <2>2
<1>4. CASE ~(j < n - i - 1)
  <2>0. arr' = arr /\ i' = i + 1 /\ j' = 0 /\ j = n - i - 1 /\ j \in 0 .. n - 1 /\ n - i' = j
    BY <1>0, <1>1, <1>4 DEF Arrays!Bubble
  <2>1. ASSUME NEW x \in 0 .. n - 1, NEW y \in 0 .. n - 1, y < x, j <= x PROVE arr[y] <= arr[x]
    <3>1. x = j \/ n - i <= x
      BY <1>0, <2>0, <2>1
    <3>. QED BY <1>1, <2>1, <3>1
  <2>2. \A y \in 0 .. n - 1 : ~(y < 0)
    OBVIOUS
  <2>3. i + 1 < n => 0 <= n - (i + 1) - 1
    BY <1>0
  <2>4. BubbleInv(n)'
    BY <1>0, <1>1, <2>0, <2>1, <2>2, <2>3 DEF BubbleInv
  <2>5. i' \in 0 .. n /\ j' \in 0 .. n + 1
    BY <1>0, <2>0
  <2>6. SortTypes(n)' /\ QuickInv(n)' /\ PartInv(n)' /\ LostInv(n)'
    BY <1>0, <2>0, <2>5, LoopKeeps
  <2>. QED BY <1>2, <2>4, <2>6 DEF SortInvOf
<1>. QED BY <1>3, <1>4

\* A turn of the inner loop of selection_sort, and its exchange.
LEMMA SelectionKeeps == ASSUME NEW n \in Nat, SortInvOf(n), Arrays!Selection PROVE SortInvOf(n)'
<1>0. /\ pc5 = "selection" /\ pc5' = pc5 /\ i < n /\ given' = given /\ low' = low /\ high' = high
      /\ calls' = calls /\ i \in 0 .. n /\ j \in 0 .. n + 1 /\ k \in 0 .. n
      /\ \A x \in 0 .. n - 1 : arr[x] \in Int
      /\ Arrays!cnt = n
  BY SortFacts DEF Arrays!Selection, Arrays!partition
<1>1. /\ calls # <<>> /\ i <= k /\ k < j /\ j <= n
      /\ \A x, y \in 0 .. n - 1 : y < x /\ y < i => arr[y] <= arr[x]
      /\ \A y \in 0 .. n - 1 : i <= y /\ y < j => arr[k] <= arr[y]
  BY <1>0 DEF SortInvOf, SelectInv
<1>2. BubbleInv(n)' /\ EndInv(n)'
  BY <1>0 DEF BubbleInv, EndInv
<1>3. k \in 0 .. n - 1 /\ i \in 0 .. n - 1
  BY <1>0, <1>1
<1>4. CASE j < n
  <2>0. k' = (IF arr[j] < arr[k] THEN j ELSE k) /\ j' = j + 1 /\ arr' = arr /\ i' = i /\ j \in 0 .. n - 1
    BY <1>0, <1>4 DEF Arrays!Selection
  <2>1. i <= k' /\ k' < j + 1 /\ j + 1 <= n /\ k' \in 0 .. n /\ j + 1 \in 0 .. n + 1
    BY <1>0, <1>1, <1>3, <2>0, <1>4
  <2>2. ASSUME NEW y \in 0 .. n - 1, i <= y, y < j + 1 PROVE arr[k'] <= arr[y]
    <3>1. y = j \/ arr[k] <= arr[y]
      BY <1>0, <1>1, <2>0, <2>2
    <3>. QED BY <1>0, <1>3, <2>0, <3>1
  <2>3. SelectInv(n)'
    BY <1>0, <1>1, <2>0, <2>1, <2>2 DEF SelectInv
  <2>4. SortTypes(n)' /\ QuickInv(n)' /\ PartInv(n)' /\ LostInv(n)'
    BY <1>0, <2>0, <2>1, LoopKeeps
  <2>. QED BY <1>2, <2>3, <2>4 DEF SortInvOf
<1>5. CASE ~(j < n)
  <2>0. arr' = Arrays!Swapped(i, k) /\ i' = i + 1 /\ k' = i + 1 /\ j' = i + 2 /\ j = n
    BY <1>0, <1>1, <1>5 DEF Arrays!Selection
  <2>1. Exchanged(n, arr, arr', i, k)
    BY <1>3, <2>0, SortFacts
  <2>2. /\ arr'[i] = arr[k] /\ arr'[k] = arr[i]
        /\ \A z \in 0 .. n - 1 : z \notin {i, k} => arr'[z] = arr[z]
    BY <2>1 DEF Exchanged
  <2>3. ASSUME NEW x \in 0 .. n - 1, NEW y \in 0 .. n - 1, y < x, y < i + 1 PROVE arr'[y] <= arr'[x]
    <3>1. CASE y < i
      <4>1. arr'[y] = arr[y] /\ arr[y] <= arr[i] /\ arr[y] <= arr[k] /\ arr[y] <= arr[x]
        BY <1>0, <1>1, <1>3, <2>2, <2>3, <3>1
      <4>. QED BY <2>2, <4>1
    <3>2. CASE y = i
      <4>1. arr'[y] = arr[k] /\ arr[k] <= arr[i] /\ arr[k] <= arr[x]
        BY <1>0, <1>1, <1>3, <2>0, <2>2, <2>3, <3>2
      <4>. QED BY <1>1, <1>0, <1>3, <2>2, <2>3, <3>2, <4>1
    <3>. QED BY <1>0, <2>3, <3>1, <3>2
  <2>4. arr'[i'] \in Int \/ ~(i' < n)
    <3>1. arr' \in SortArrays(n)
      BY <2>1 DEF Exchanged
    <3>2. i' < n => i' \in 0 .. n - 1
      BY <1>0, <2>0
    <3>3. \A x \in 0 .. n - 1 : arr'[x] \in Int
      BY <3>1, SortConstants DEF SortArrays
    <3>. QED BY <3>2, <3>3
  <2>5. \A y \in 0 .. n - 1 : i + 1 <= y /\ y < i + 2 => y = i + 1
    BY <1>0
  <2>6. i + 1 < n => i + 1 <= i + 1 /\ i + 1 < i + 2 /\ i + 2 <= n
    BY <1>0
  <2>7. SelectInv(n)'
    <3>1. \A y \in 0 .. n - 1 : i + 1 < n /\ i + 1 <= y /\ y < i + 2 => arr'[i + 1] <= arr'[y]
      BY <2>0, <2>4, <2>5
    <3>. QED BY <1>0, <1>1, <2>0, <2>3, <2>6, <3>1 DEF SelectInv
  <2>8. i' \in 0 .. n /\ j' \in 0 .. n + 1 /\ k' \in 0 .. n
    BY <1>0, <2>0
  <2>9. SortTypes(n)' /\ QuickInv(n)' /\ PartInv(n)' /\ LostInv(n)'
    BY <1>0, <1>3, <2>1, <2>8, LoopKeeps
  <2>. QED BY <1>2, <2>7, <2>9 DEF SortInvOf
<1>. QED BY <1>4, <1>5

\* The two end with the whole array in place.
LEMMA LoopsEndKeeps == ASSUME NEW n \in Nat, SortInvOf(n), Arrays!LoopsEnd PROVE SortInvOf(n)'
<1>0. /\ pc5 \in {"bubble", "selection"} /\ pc5' = "end" /\ given' = given /\ low' = low /\ high' = high
      /\ calls' = calls /\ arr' = arr /\ i' = i /\ j' = j /\ k' = k
      /\ i \in 0 .. n /\ j \in 0 .. n + 1 /\ k \in 0 .. n /\ i = n
  BY SortFacts DEF Arrays!LoopsEnd, Arrays!partition, Arrays!counters
<1>1. calls # <<>> /\ \A x, y \in 0 .. n - 1 : y < x => arr[y] <= arr[x]
  BY <1>0 DEF SortInvOf, BubbleInv, SelectInv
<1>2. BubbleInv(n)' /\ SelectInv(n)' /\ EndInv(n)'
  BY <1>0, <1>1 DEF BubbleInv, SelectInv, EndInv
<1>3. Arrays!Whole' = Arrays!Whole
  BY <1>0 DEF Arrays!Whole
<1>4. SortTypes(n)' /\ QuickInv(n)' /\ PartInv(n)' /\ LostInv(n)'
  BY <1>0, <1>3 DEF SortInvOf, SortTypes, QuickInv, PartInv, LostInv
<1>. QED BY <1>2, <1>4 DEF SortInvOf

\* What the steps of my_partition use.
LEMMA PartFacts ==
  ASSUME NEW n \in Nat, SortInvOf(n), pc5 \in {"down", "up", "placed"}
  PROVE  /\ 1 \in DOMAIN calls /\ calls # <<>> /\ calls \in Seq(CallRanges(n))
         /\ calls[1] \in CallRanges(n) /\ calls[1][1] \in 0 .. n /\ calls[1][2] \in -1 .. n - 1
         /\ low \in 0 .. n - 1 /\ high \in 0 .. n - 1 /\ calls[1][1] <= low /\ low <= high /\ high <= calls[1][2]
         /\ flag \in SortValues /\ flag \in Int
         /\ NoOverlap(calls) /\ Apart(n, Arrays!Whole, calls)
         /\ Within(calls[1], low) /\ Within(calls[1], high)
         /\ \A x \in 0 .. n - 1 : calls[1][1] <= x /\ x < low => arr[x] < flag
         /\ \A x \in 0 .. n - 1 : high < x /\ x <= calls[1][2] => flag < arr[x]
<1>1. calls # <<>> /\ calls \in Seq(CallRanges(n)) /\ flag \in SortValues /\ low \in 0 .. n /\ high \in 0 .. n
      /\ calls[1][1] <= low /\ low <= high /\ high <= calls[1][2]
  BY DEF SortInvOf, SortTypes, PartInv
<1>2. 1 \in DOMAIN calls /\ calls[1] \in CallRanges(n)
  BY <1>1
<1>3. calls[1][1] \in 0 .. n /\ calls[1][2] \in -1 .. n - 1
  BY <1>2 DEF CallRanges
<1>4. low \in 0 .. n - 1 /\ high \in 0 .. n - 1
  BY <1>1, <1>3
<1>5. Within(calls[1], low) /\ Within(calls[1], high)
  BY <1>1, <1>3 DEF Within
<1>. QED BY <1>1, <1>2, <1>3, <1>4, <1>5, SortConstants DEF SortInvOf, QuickInv, PartInv

\* A step within my_partition: the array with the pivot in its hole is as it was, or
\* has two elements of the range exchanged.
LEMMA PartKeeps ==
  ASSUME NEW n \in Nat, SortInvOf(n), pc5 \in {"down", "up", "placed"}, pc5' \in {"down", "up", "placed"},
         given' = given, calls' = calls, flag' = flag, i' = i, j' = j, k' = k,
         low' \in 0 .. n, high' \in 0 .. n, arr' \in SortArrays(n), PartInv(n)',
         Arrays!Whole' = Arrays!Whole \/ Exchanged(n, Arrays!Whole, Arrays!Whole', low, high)
  PROVE  SortInvOf(n)'
<1>1. SortTypes(n)'
  BY DEF SortInvOf, SortTypes
<1>2. BubbleInv(n)' /\ SelectInv(n)' /\ EndInv(n)'
  BY DEF BubbleInv, SelectInv, EndInv
<1>. DEFINE old == Arrays!Whole
            new == Arrays!Whole'
<1>. HIDE DEF old, new
<1>3. /\ low \in 0 .. n - 1 /\ high \in 0 .. n - 1 /\ NoOverlap(calls) /\ Apart(n, old, calls)
      /\ Within(calls[1], low) /\ Within(calls[1], high) /\ calls # <<>> /\ calls \in Seq(CallRanges(n))
  BY PartFacts DEF old
<1>4. new = old \/ Exchanged(n, old, new, low, high)
  BY DEF old, new
<1>5. Apart(n, new, calls)
  BY <1>3, <1>4, ExchangedApart
<1>6. \A val : Count(new, n, val) = Count(old, n, val)
  BY <1>3, <1>4, ExchangedCount
<1>7. QuickInv(n)'
  BY <1>3, <1>5 DEF QuickInv, new
<1>8. LostInv(n)'
  BY <1>6 DEF SortInvOf, LostInv, old, new
<1>. QED BY <1>1, <1>2, <1>7, <1>8 DEF SortInvOf

\* high goes down past larger elements, then its element fills the hole at low.
LEMMA HighDownKeeps == ASSUME NEW n \in Nat, SortInvOf(n), Arrays!HighDown PROVE SortInvOf(n)'
<1>0. /\ pc5 = "down" /\ given' = given /\ low' = low /\ flag' = flag /\ calls' = calls
      /\ i' = i /\ j' = j /\ k' = k
  BY DEF Arrays!HighDown, Arrays!counters
<1>1. /\ low \in 0 .. n - 1 /\ high \in 0 .. n - 1 /\ low <= high /\ flag \in SortValues /\ flag \in Int
      /\ arr \in SortArrays(n) /\ \A x \in 0 .. n - 1 : arr[x] \in SortValues
  BY <1>0, PartFacts, SortFacts
<1>2. Arrays!Whole = [arr EXCEPT ![low] = flag]
  BY <1>0 DEF Arrays!Whole
<1>3. CASE low < high /\ flag < arr[high]
  <2>0. high' = high - 1 /\ arr' = arr /\ pc5' = pc5
    BY <1>3 DEF Arrays!HighDown
  <2>1. Arrays!Whole' = Arrays!Whole
    BY <1>0, <1>2, <2>0 DEF Arrays!Whole
  <2>2. \A x \in 0 .. n - 1 : high - 1 < x => high < x \/ x = high
    BY <1>1
  <2>3. /\ low <= high - 1 /\ high - 1 <= calls[1][2] /\ high - 1 \in 0 .. n
    BY <1>0, <1>1, <1>3, PartFacts
  <2>4. \A x \in 0 .. n - 1 : high - 1 < x /\ x <= calls[1][2] => flag < arr[x]
    BY <1>0, <1>3, <2>2, PartFacts
  <2>5. PartInv(n)'
    BY <1>0, <2>0, <2>3, <2>4 DEF SortInvOf, PartInv
  <2>. QED BY <1>0, <1>1, <2>0, <2>1, <2>3, <2>5, PartKeeps
<1>4. CASE ~(low < high /\ flag < arr[high])
  <2>0. high' = high /\ arr' = [arr EXCEPT ![low] = arr[high]] /\ pc5' = "up"
    BY <1>4 DEF Arrays!HighDown
  <2>1. arr' \in SortArrays(n) /\ Arrays!Whole' = [arr' EXCEPT ![high] = flag]
    BY <1>0, <1>1, <2>0 DEF Arrays!Whole, SortArrays
  <2>2. Exchanged(n, Arrays!Whole, Arrays!Whole', low, high)
    BY <1>1, <1>2, <2>0, <2>1 DEF Exchanged, SortArrays
  <2>3. \A x \in 0 .. n - 1 : x # low => arr'[x] = arr[x]
    BY <1>1, <2>0 DEF SortArrays
  <2>4. \A x \in 0 .. n - 1 : (x < low => x # low) /\ (high < x => x # low)
    BY <1>1
  <2>5. PartInv(n)'
    BY <1>0, <2>0, <2>3, <2>4 DEF SortInvOf, PartInv
  <2>6. low \in 0 .. n /\ high \in 0 .. n
    BY <1>1
  <2>. QED BY <1>0, <1>1, <2>0, <2>1, <2>2, <2>5, <2>6, PartKeeps
<1>. QED BY <1>3, <1>4

\* low goes up past smaller elements, then its element fills the hole at high.
LEMMA LowUpKeeps == ASSUME NEW n \in Nat, SortInvOf(n), Arrays!LowUp PROVE SortInvOf(n)'
<1>0. /\ pc5 = "up" /\ given' = given /\ high' = high /\ flag' = flag /\ calls' = calls
      /\ i' = i /\ j' = j /\ k' = k
  BY DEF Arrays!LowUp, Arrays!counters
<1>1. /\ low \in 0 .. n - 1 /\ high \in 0 .. n - 1 /\ low <= high /\ flag \in SortValues /\ flag \in Int
      /\ arr \in SortArrays(n) /\ \A x \in 0 .. n - 1 : arr[x] \in SortValues /\ arr[x] \in Int
  BY <1>0, PartFacts, SortFacts
<1>2. Arrays!Whole = [arr EXCEPT ![high] = flag]
  BY <1>0 DEF Arrays!Whole
<1>3. CASE low < high /\ flag > arr[low]
  <2>0. low' = low + 1 /\ arr' = arr /\ pc5' = pc5
    BY <1>3 DEF Arrays!LowUp
  <2>1. Arrays!Whole' = Arrays!Whole
    BY <1>0, <1>2, <2>0 DEF Arrays!Whole
  <2>2. \A x \in 0 .. n - 1 : x < low + 1 => x < low \/ x = low
    BY <1>1
  <2>3. /\ low + 1 <= high /\ calls[1][1] <= low + 1 /\ low + 1 \in 0 .. n
    BY <1>0, <1>1, <1>3, PartFacts
  <2>4. \A x \in 0 .. n - 1 : calls[1][1] <= x /\ x < low + 1 => arr[x] < flag
    BY <1>0, <1>1, <1>3, <2>2, PartFacts
  <2>5. PartInv(n)'
    BY <1>0, <2>0, <2>3, <2>4 DEF SortInvOf, PartInv
  <2>6. high \in 0 .. n
    BY <1>1
  <2>. QED BY <1>0, <1>1, <2>0, <2>1, <2>3, <2>5, <2>6, PartKeeps
<1>4. CASE ~(low < high /\ flag > arr[low])
  <2>0. low' = low /\ arr' = [arr EXCEPT ![high] = arr[low]] /\ pc5' = (IF low < high THEN "down" ELSE "placed")
    BY <1>4 DEF Arrays!LowUp
  <2>1. arr' \in SortArrays(n) /\ Arrays!Whole' = [arr' EXCEPT ![low] = flag]
    BY <1>0, <1>1, <2>0 DEF Arrays!Whole, SortArrays
  <2>2. Exchanged(n, Arrays!Whole, Arrays!Whole', low, high)
    BY <1>1, <1>2, <2>0, <2>1 DEF Exchanged, SortArrays
  <2>3. \A x \in 0 .. n - 1 : x # high => arr'[x] = arr[x]
    BY <1>1, <2>0 DEF SortArrays
  <2>4. \A x \in 0 .. n - 1 : (x < low => x # high) /\ (high < x => x # high)
    BY <1>1
  <2>5. pc5' = "placed" => low = high
    BY <1>1, <2>0
  <2>6. PartInv(n)'
    BY <1>0, <2>0, <2>3, <2>4, <2>5 DEF SortInvOf, PartInv
  <2>7. low \in 0 .. n /\ high \in 0 .. n /\ pc5' \in {"down", "up", "placed"}
    BY <1>1, <2>0
  <2>. QED BY <1>0, <1>1, <2>0, <2>1, <2>2, <2>6, <2>7, PartKeeps
<1>. QED BY <1>3, <1>4

\* A range of one element or none is dropped, another given to my_partition.
LEMMA QuickSortKeeps == ASSUME NEW n \in Nat, SortInvOf(n), Arrays!QuickSort PROVE SortInvOf(n)'
<1>0. /\ pc5 = "quick" /\ calls # <<>> /\ arr' = arr /\ given' = given /\ i' = i /\ j' = j /\ k' = k
      /\ calls \in Seq(CallRanges(n)) /\ arr \in SortArrays(n) /\ low \in 0 .. n /\ high \in 0 .. n
  BY DEF SortInvOf, SortTypes, Arrays!QuickSort, Arrays!counters
<1>1. 1 \in DOMAIN calls /\ calls[1][1] \in 0 .. n /\ calls[1][2] \in -1 .. n - 1
  <2>1. 1 \in DOMAIN calls /\ calls[1] \in CallRanges(n)
    BY <1>0
  <2>. QED BY <2>1 DEF CallRanges
<1>2. Arrays!Whole = arr /\ NoOverlap(calls) /\ Apart(n, arr, calls)
  BY <1>0 DEF Arrays!Whole, SortInvOf, QuickInv
<1>3. CASE calls[1][1] < calls[1][2]
  <2>0. low' = calls[1][1] /\ high' = calls[1][2] /\ flag' = arr[calls[1][1]] /\ pc5' = "down" /\ calls' = calls
    BY <1>3 DEF Arrays!QuickSort
  <2>1. low' \in 0 .. n - 1 /\ high' \in 0 .. n - 1 /\ low' <= high'
    BY <1>1, <1>3, <2>0
  <2>2. Arrays!Whole' = arr
    BY <1>0, <2>0, <2>1 DEF Arrays!Whole, SortArrays
  <2>3. arr[low'] \in SortValues
    BY <1>0, <2>1 DEF SortArrays
  <2>4. /\ \A x \in 0 .. n - 1 : ~(low' <= x /\ x < low') /\ ~(high' < x /\ x <= high')
        /\ low' <= low' /\ high' <= high' /\ low' \in 0 .. n /\ high' \in 0 .. n
    BY <2>1
  <2>5. PartInv(n)'
    BY <1>0, <2>0, <2>1, <2>3, <2>4 DEF PartInv
  <2>6. SortTypes(n)'
    BY <1>0, <2>0, <2>4 DEF SortInvOf, SortTypes
  <2>7. QuickInv(n)' /\ LostInv(n)'
    BY <1>0, <1>2, <2>0, <2>2 DEF SortInvOf, QuickInv, LostInv
  <2>8. BubbleInv(n)' /\ SelectInv(n)' /\ EndInv(n)'
    BY <2>0 DEF BubbleInv, SelectInv, EndInv
  <2>. QED BY <2>5, <2>6, <2>7, <2>8 DEF SortInvOf
<1>4. CASE ~(calls[1][1] < calls[1][2])
  <2>0. low' = low /\ high' = high /\ flag' = flag /\ pc5' = pc5 /\ calls' = Tail(calls)
    BY <1>4 DEF Arrays!QuickSort
  <2>1. /\ calls' \in Seq(CallRanges(n))
        /\ \A z \in DOMAIN calls' : z \in Int /\ z + 1 \in DOMAIN calls /\ calls'[z] = calls[z + 1]
        /\ \A z \in DOMAIN calls : z # 1 => z - 1 \in DOMAIN calls' /\ calls'[z - 1] = calls[z]
    BY <1>0, <2>0
  <2>2. NoOverlap(calls')
    <3>. SUFFICES ASSUME NEW y \in DOMAIN calls', NEW z \in DOMAIN calls', y # z, NEW x \in Int,
                         Within(calls'[y], x), Within(calls'[z], x)
                  PROVE  FALSE
      BY DEF NoOverlap
    <3>1. y + 1 \in DOMAIN calls /\ z + 1 \in DOMAIN calls /\ y + 1 # z + 1
      BY <2>1
    <3>. QED BY <1>2, <2>1, <3>1 DEF NoOverlap
  <2>3. Apart(n, arr, calls')
    <3>. SUFFICES ASSUME NEW x \in 0 .. n - 1, NEW y \in 0 .. n - 1, x < y, Together(calls, x, y)
                  PROVE  Together(calls', x, y)
      BY <1>2 DEF Apart
    <3>1. PICK z \in DOMAIN calls : Within(calls[z], x) /\ Within(calls[z], y)
      BY DEF Together
    <3>2. z # 1
      BY <1>1, <1>4, <3>1 DEF Within
    <3>. QED BY <2>1, <3>1, <3>2 DEF Together
  <2>4. Arrays!Whole' = arr
    BY <1>0, <2>0 DEF Arrays!Whole
  <2>5. SortTypes(n)'
    BY <1>0, <2>0, <2>1 DEF SortInvOf, SortTypes
  <2>6. QuickInv(n)' /\ LostInv(n)' /\ PartInv(n)'
    BY <1>0, <1>2, <2>0, <2>2, <2>3, <2>4 DEF SortInvOf, QuickInv, LostInv, PartInv
  <2>7. BubbleInv(n)' /\ SelectInv(n)' /\ EndInv(n)'
    BY <1>0, <2>0 DEF BubbleInv, SelectInv, EndInv
  <2>. QED BY <2>5, <2>6, <2>7 DEF SortInvOf
<1>. QED BY <1>3, <1>4

\* With no range left no two elements are together.
LEMMA QuickEndsKeeps == ASSUME NEW n \in Nat, SortInvOf(n), Arrays!QuickEnds PROVE SortInvOf(n)'
<1>0. /\ pc5 = "quick" /\ calls = <<>> /\ pc5' = "end" /\ arr' = arr /\ given' = given /\ i' = i /\ j' = j /\ k' = k
      /\ low' = low /\ high' = high /\ flag' = flag /\ calls' = calls
  BY DEF Arrays!QuickEnds, Arrays!counters, Arrays!partition
<1>1. Arrays!Whole = arr /\ Arrays!Whole' = arr /\ Apart(n, arr, calls)
  BY <1>0 DEF Arrays!Whole, SortInvOf, QuickInv
<1>2. \A x, y \in 0 .. n - 1 : y < x => arr[y] < arr[x]
  BY <1>0, <1>1 DEF Apart, Together
<1>3. EndInv(n)'
  <2>1. \A x \in 0 .. n - 1 : arr[x] \in Int
    BY SortFacts
  <2>. QED BY <1>0, <1>2, <2>1 DEF EndInv
<1>4. SortTypes(n)' /\ BubbleInv(n)' /\ SelectInv(n)' /\ QuickInv(n)' /\ PartInv(n)' /\ LostInv(n)'
  BY <1>0, <1>1 DEF SortInvOf, SortTypes, BubbleInv, SelectInv, QuickInv, PartInv, LostInv
<1>. QED BY <1>3, <1>4 DEF SortInvOf

\* The pivot in its place, the two ranges beside it are apart.
LEMMA PlacedKeeps == ASSUME NEW n \in Nat, SortInvOf(n), Arrays!Placed PROVE SortInvOf(n)'
<1>0. /\ pc5 = "placed" /\ pc5' = "quick" /\ given' = given /\ low' = low /\ high' = high /\ flag' = flag
      /\ i' = i /\ j' = j /\ k' = k /\ arr' = [arr EXCEPT ![low] = flag]
      /\ calls' = <<<<calls[1][1], low - 1>>, <<low + 1, calls[1][2]>>>> \o Tail(calls) /\ low = high
  BY DEF Arrays!Placed, Arrays!counters, SortInvOf, PartInv
<1>. DEFINE lo == calls[1][1]
            hi == calls[1][2]
<1>1. /\ 1 \in DOMAIN calls /\ calls # <<>> /\ calls \in Seq(CallRanges(n)) /\ lo \in 0 .. n /\ hi \in -1 .. n - 1
      /\ low \in 0 .. n - 1 /\ lo <= low /\ low <= hi /\ flag \in SortValues /\ flag \in Int
      /\ NoOverlap(calls) /\ Apart(n, Arrays!Whole, calls)
      /\ \A x \in 0 .. n - 1 : lo <= x /\ x < low => arr[x] < flag
      /\ \A x \in 0 .. n - 1 : low < x /\ x <= hi => flag < arr[x]
  BY <1>0, PartFacts
<1>2. Arrays!Whole = arr' /\ Arrays!Whole' = arr'
  BY <1>0 DEF Arrays!Whole
<1>3. /\ arr' \in SortArrays(n) /\ arr'[low] = flag /\ \A x \in 0 .. n - 1 : x # low => arr'[x] = arr[x]
  BY <1>0, <1>1, SortFacts DEF SortArrays
<1>4. <<lo, low - 1>> \in CallRanges(n) /\ <<low + 1, hi>> \in CallRanges(n)
  BY <1>1 DEF CallRanges
<1>5. /\ calls' \in Seq(CallRanges(n)) /\ 1 \in DOMAIN calls' /\ 2 \in DOMAIN calls'
      /\ calls'[1] = <<lo, low - 1>> /\ calls'[2] = <<low + 1, hi>>
      /\ \A z \in DOMAIN calls' : z \in {1, 2} \/ (z - 1 \in DOMAIN calls /\ z - 1 # 1 /\ calls'[z] = calls[z - 1])
      /\ \A z \in DOMAIN calls : z # 1 => z + 1 \in DOMAIN calls' /\ calls'[z + 1] = calls[z]
  <2>. DEFINE head == <<<<lo, low - 1>>, <<low + 1, hi>>>>
              tail == Tail(calls)
  <2>1. head \in Seq(CallRanges(n)) /\ Len(head) = 2 /\ head[1] = <<lo, low - 1>> /\ head[2] = <<low + 1, hi>>
    BY <1>4
  <2>2. /\ tail \in Seq(CallRanges(n)) /\ Len(tail) = Len(calls) - 1 /\ Len(calls) \in Nat
        /\ \A z \in 1 .. Len(tail) : tail[z] = calls[z + 1]
    BY <1>1
  <2>. HIDE DEF head, tail
  <2>3. calls' = head \o tail
    BY <1>0 DEF head, tail
  <2>4. /\ calls' \in Seq(CallRanges(n)) /\ Len(calls') = Len(calls) + 1 /\ DOMAIN calls' = 1 .. Len(calls) + 1
        /\ calls'[1] = head[1] /\ calls'[2] = head[2]
        /\ \A z \in 3 .. Len(calls) + 1 : calls'[z] = tail[z - 2]
    <3>1. calls' \in Seq(CallRanges(n)) /\ Len(calls') = Len(head) + Len(tail)
      BY <2>1, <2>2, <2>3, ConcatProperties
    <3>2. Len(calls') = Len(calls) + 1
      BY <2>1, <2>2, <3>1
    <3>3. DOMAIN calls' = 1 .. Len(calls')
      BY <3>1
    <3>4. 1 <= Len(calls)
      BY <1>1
    <3>5. \A z \in 1 .. Len(calls') : calls'[z] = IF z <= Len(head) THEN head[z] ELSE tail[z - Len(head)]
      BY <2>1, <2>2, <2>3, <3>1, ConcatProperties
    <3>6. calls'[1] = head[1] /\ calls'[2] = head[2]
      BY <2>1, <2>2, <3>2, <3>4, <3>5
    <3>7. \A z \in 3 .. Len(calls) + 1 : calls'[z] = tail[z - 2]
      BY <2>1, <2>2, <3>2, <3>5
    <3>. QED BY <3>1, <3>2, <3>3, <3>6, <3>7
  <2>5. \A z \in 3 .. Len(calls) + 1 : calls'[z] = calls[z - 1]
    <3>. SUFFICES ASSUME NEW z \in 3 .. Len(calls) + 1 PROVE calls'[z] = calls[z - 1]
      OBVIOUS
    <3>1. z - 2 \in 1 .. Len(tail) /\ (z - 2) + 1 = z - 1
      BY <2>2
    <3>. QED BY <2>2, <2>4, <3>1
  <2>6. DOMAIN calls = 1 .. Len(calls) /\ 1 <= Len(calls) /\ Len(calls) \in Nat
    BY <1>1
  <2>7. ASSUME NEW z \in DOMAIN calls, z # 1 PROVE z + 1 \in DOMAIN calls' /\ calls'[z + 1] = calls[z]
    <3>1. z + 1 \in 3 .. Len(calls) + 1 /\ (z + 1) - 1 = z
      BY <2>6, <2>7
    <3>. QED BY <2>4, <2>5, <3>1
  <2>8. ASSUME NEW z \in DOMAIN calls', z \notin {1, 2} PROVE z - 1 \in DOMAIN calls /\ z - 1 # 1 /\ calls'[z] = calls[z - 1]
    <3>1. z \in 3 .. Len(calls) + 1 /\ z - 1 \in 1 .. Len(calls) /\ z - 1 # 1
      BY <2>4, <2>6, <2>8
    <3>. QED BY <2>5, <2>6, <3>1
  <2>. QED BY <2>1, <2>4, <2>6, <2>7, <2>8
<1>6. /\ \A x \in Int : Within(calls'[1], x) <=> lo <= x /\ x < low
      /\ \A x \in Int : Within(calls'[2], x) <=> low < x /\ x <= hi
      /\ \A x \in Int : Within(calls[1], x) <=> lo <= x /\ x <= hi
  BY <1>1, <1>5 DEF Within
<1>7. NoOverlap(calls')
  <2>. SUFFICES ASSUME NEW y \in DOMAIN calls', NEW z \in DOMAIN calls', y # z, NEW x \in Int,
                       Within(calls'[y], x), Within(calls'[z], x)
                PROVE  FALSE
    BY DEF NoOverlap
  <2>1. \A w \in {1, 2} : Within(calls'[w], x) => Within(calls[1], x)
    BY <1>1, <1>6
  <2>2. ~(Within(calls'[1], x) /\ Within(calls'[2], x))
    BY <1>1, <1>6
  <2>3. \A w \in DOMAIN calls : w # 1 => ~(Within(calls[1], x) /\ Within(calls[w], x))
    BY <1>1 DEF NoOverlap
  <2>4. CASE y \in {1, 2} /\ z \in {1, 2}
    BY <2>2, <2>4
  <2>5. CASE y \in {1, 2} /\ z \notin {1, 2}
    BY <1>5, <2>1, <2>3, <2>5
  <2>6. CASE y \notin {1, 2} /\ z \in {1, 2}
    BY <1>5, <2>1, <2>3, <2>6
  <2>7. CASE y \notin {1, 2} /\ z \notin {1, 2}
    <3>1. y \in Int /\ z \in Int
      BY <1>5
    <3>2. y - 1 \in DOMAIN calls /\ z - 1 \in DOMAIN calls /\ y - 1 # z - 1
          /\ calls'[y] = calls[y - 1] /\ calls'[z] = calls[z - 1]
      BY <1>5, <2>7, <3>1
    <3>. QED BY <1>1, <3>2 DEF NoOverlap
  <2>. QED BY <2>4, <2>5, <2>6, <2>7
<1>8. Apart(n, arr', calls')
  <2>. SUFFICES ASSUME NEW x \in 0 .. n - 1, NEW y \in 0 .. n - 1, x < y, ~Together(calls', x, y), Together(calls, x, y)
                PROVE  arr'[x] < arr'[y]
    BY <1>1, <1>2 DEF Apart
  <2>1. PICK z \in DOMAIN calls : Within(calls[z], x) /\ Within(calls[z], y)
    BY DEF Together
  <2>2. z = 1
    BY <1>5, <2>1 DEF Together
  <2>3. lo <= x /\ y <= hi
    BY <1>6, <2>1, <2>2
  <2>4. ~(Within(calls'[1], x) /\ Within(calls'[1], y)) /\ ~(Within(calls'[2], x) /\ Within(calls'[2], y))
    BY <1>5 DEF Together
  <2>5. x <= low /\ low <= y
    BY <1>1, <1>6, <2>3, <2>4
  <2>6. (x < low => arr'[x] < flag) /\ (x = low => arr'[x] = flag) /\ (low < y => flag < arr'[y]) /\ (y = low => arr'[y] = flag)
    BY <1>1, <1>3, <2>3
  <2>7. arr'[x] \in Int /\ arr'[y] \in Int
    BY <1>3, SortConstants DEF SortArrays
  <2>. QED BY <1>1, <2>5, <2>6, <2>7
<1>9. SortTypes(n)'
  BY <1>0, <1>3, <1>5 DEF SortInvOf, SortTypes
<1>10. QuickInv(n)' /\ LostInv(n)'
  BY <1>0, <1>2, <1>7, <1>8 DEF SortInvOf, QuickInv, LostInv
<1>11. BubbleInv(n)' /\ SelectInv(n)' /\ EndInv(n)' /\ PartInv(n)'
  BY <1>0 DEF BubbleInv, SelectInv, EndInv, PartInv
<1>. QED BY <1>9, <1>10, <1>11 DEF SortInvOf

\* Every action is one of those.
LEMMA SortStep == ASSUME SortInv, [Arrays!Next]_Arrays!vars PROVE SortInv'
<1>1. PICK n \in Nat : SortInvOf(n)
  BY DEF SortInv
<1>2. SUFFICES SortInvOf(n)'
  BY <1>1 DEF SortInv
<1>3. CASE UNCHANGED Arrays!vars
  BY <1>1, <1>3 DEF Arrays!vars, SortInvOf, SortTypes, BubbleInv, SelectInv, QuickInv, PartInv, EndInv, LostInv, Arrays!Whole
<1>4. CASE Arrays!Next
  <2>1. SortInvOf(n) /\ n \in Nat
    BY <1>1
  <2>. QED BY <1>4, <2>1, BubbleKeeps, SelectionKeeps, LoopsEndKeeps, HighDownKeeps, LowUpKeeps, QuickSortKeeps,
           QuickEndsKeeps, PlacedKeeps DEF Arrays!Next
<1>. QED BY <1>3, <1>4

\* The invariant says what the properties of Sort say.
LEMMA SortSays ==
  ASSUME SortInv
  PROVE  Arrays!TypeOK /\ Arrays!NothingIsLost /\ Arrays!RangesAreSeparate /\ Arrays!EndsSorted /\ Arrays!QuickNeedsDistinct
<1>1. PICK n \in Nat : SortInvOf(n)
  BY DEF SortInv
<1>2. SortTypes(n)
  BY <1>1 DEF SortInvOf
<1>3. arr \in SortArrays(n) /\ given \in SortArrays(n) /\ SortValues \subseteq Int
  BY <1>2, SortConstants DEF SortTypes
<1>4. Arrays!cnt = n /\ DOMAIN arr = 0 .. n - 1 /\ DOMAIN given = 0 .. n - 1
  BY <1>3, LengthIs DEF Arrays!cnt
<1>5. DOMAIN Arrays!Whole = 0 .. n - 1
  BY <1>4 DEF Arrays!Whole
<1>6. Arrays!TypeOK
  <2>1. CallRanges(n) \subseteq (0 .. n + 1) \X (-1 .. n)
    BY DEF CallRanges
  <2>2. calls \in Seq((0 .. n + 1) \X (-1 .. n))
    BY <1>2, <2>1 DEF SortTypes
  <2>. QED BY <1>2, <1>4, <2>2 DEF Arrays!TypeOK, SortTypes, SortArrays
<1>7. Arrays!NothingIsLost
  <2>1. \A g, val : DOMAIN g = 0 .. n - 1 => Arrays!Count(g, val) = Count(g, n, val)
    BY SameSortCardinality, Zenon DEF Arrays!Count, Count, Spots
  <2>2. \A val : Count(Arrays!Whole, n, val) = Count(given, n, val)
    BY <1>1 DEF SortInvOf, LostInv
  <2>. QED BY <1>4, <1>5, <2>1, <2>2, Zenon DEF Arrays!NothingIsLost
<1>8. Arrays!EndsSorted
  <2>. SUFFICES ASSUME pc5 = "end", NEW x \in 1 .. n - 1 PROVE arr[x - 1] <= arr[x]
    BY <1>4 DEF Arrays!EndsSorted
  <2>1. x \in 0 .. n - 1 /\ x - 1 \in 0 .. n - 1 /\ x - 1 < x
    OBVIOUS
  <2>. QED BY <1>1, <2>1 DEF SortInvOf, EndInv
<1>9. Arrays!RangesAreSeparate
  <2>1. ASSUME pc5 = "selection", NEW x \in 0 .. i - 1, NEW y \in 0 .. n - 1, x < y PROVE arr[x] <= arr[y]
    <3>1. x \in 0 .. n - 1 /\ x < i
      BY <1>2, <2>1 DEF SortTypes
    <3>. QED BY <1>1, <2>1, <3>1 DEF SortInvOf, SelectInv
  <2>2. ASSUME pc5 = "bubble", NEW x \in n - i .. n - 1, NEW y \in 0 .. n - 1, y < x PROVE arr[y] <= arr[x]
    <3>1. x \in 0 .. n - 1 /\ n - i <= x
      BY <1>2, <2>2 DEF SortTypes
    <3>. QED BY <1>1, <2>2, <3>1 DEF SortInvOf, BubbleInv
  <2>3. ASSUME pc5 = "quick", NEW x \in 0 .. n - 1, NEW y \in 0 .. n - 1, x < y
        PROVE  arr[x] <= arr[y] \/ \E c \in Arrays!Range(calls) : {x, y} \subseteq c[1] .. c[2]
    <3>1. Apart(n, arr, calls)
      BY <1>1, <2>3 DEF SortInvOf, QuickInv, Arrays!Whole
    <3>2. CASE arr[x] < arr[y]
      <4>1. arr[x] \in Int /\ arr[y] \in Int
        BY <1>3 DEF SortArrays
      <4>. QED BY <3>2, <4>1
    <3>3. CASE Together(calls, x, y)
      <4>1. PICK z \in DOMAIN calls : Within(calls[z], x) /\ Within(calls[z], y)
        BY <3>3 DEF Together
      <4>2. calls[z] \in Arrays!Range(calls)
        BY DEF Arrays!Range
      <4>3. calls[z][1] \in Int /\ calls[z][2] \in Int
        <5>1. calls \in Seq(CallRanges(n))
          BY <1>2 DEF SortTypes
        <5>2. calls[z] \in CallRanges(n)
          BY <5>1
        <5>. QED BY <5>2 DEF CallRanges
      <4>4. {x, y} \subseteq calls[z][1] .. calls[z][2]
        BY <4>1, <4>3 DEF Within
      <4>. QED BY <4>2, <4>4
    <3>. QED BY <2>3, <3>1, <3>2, <3>3 DEF Apart
  <2>. QED BY <1>4, <2>1, <2>2, <2>3 DEF Arrays!RangesAreSeparate
<1>10. Arrays!QuickNeedsDistinct
  <2>. SUFFICES ASSUME pc5 = "end", calls = <<>>, NEW x \in 0 .. n - 1, NEW y \in 0 .. n - 1, x # y, given[x] = given[y]
                PROVE  FALSE
    BY <1>4 DEF Arrays!QuickNeedsDistinct, Arrays!IsInjective
  <2>. DEFINE val == given[x]
  <2>1. IsFiniteSet(0 .. n - 1)
    BY FS_Interval
  <2>2. Spots(given, n, val) \subseteq 0 .. n - 1 /\ Spots(arr, n, val) \subseteq 0 .. n - 1
    BY DEF Spots
  <2>3. IsFiniteSet(Spots(given, n, val)) /\ IsFiniteSet(Spots(arr, n, val))
    BY <2>1, <2>2, FS_Subset
  <2>4. {x, y} \subseteq Spots(given, n, val)
    BY DEF Spots
  <2>5. Cardinality({x, y}) <= Cardinality(Spots(given, n, val))
    BY <2>3, <2>4, FS_Subset
  <2>6. Cardinality({x, y}) = 2
    <3>1. IsFiniteSet({x}) /\ Cardinality({x}) = 1
      BY FS_Singleton
    <3>2. {x, y} = {x} \cup {y} /\ y \notin {x}
      OBVIOUS
    <3>3. Cardinality({x} \cup {y}) = Cardinality({x}) + 1
      BY <3>1, <3>2, FS_AddElement, Zenon
    <3>4. Cardinality({x, y}) = 1 + 1
      BY <3>1, <3>2, <3>3, Zenon
    <3>. QED BY <3>4
  <2>7. Count(arr, n, val) = Count(given, n, val)
    BY <1>1 DEF SortInvOf, LostInv, Arrays!Whole
  <2>8. Cardinality(Spots(arr, n, val)) \in Nat /\ Cardinality(Spots(given, n, val)) \in Nat
    BY <2>3, FS_CardinalityType
  <2>9. Cardinality(Spots(arr, n, val)) >= 2
    BY <2>5, <2>6, <2>7, <2>8 DEF Count
  <2>. HIDE DEF val
  <2>10. Spots(arr, n, val) # {}
    <3>1. Cardinality({}) = 0
      BY FS_EmptySet, Zenon
    <3>2. Cardinality(Spots(arr, n, val)) # 0
      BY <2>8, <2>9
    <3>. QED BY <3>1, <3>2, Zenon
  <2>11. PICK a \in Spots(arr, n, val) : TRUE
    BY <2>10
  <2>12. Spots(arr, n, val) # {a}
    <3>1. Cardinality({a}) = 1
      BY FS_Singleton, Zenon
    <3>2. Cardinality(Spots(arr, n, val)) # 1
      BY <2>8, <2>9
    <3>. QED BY <3>1, <3>2, Zenon
  <2>13. PICK b \in Spots(arr, n, val) : b # a
    BY <2>11, <2>12
  <2>14. a \in 0 .. n - 1 /\ b \in 0 .. n - 1 /\ arr[a] = arr[b]
    BY <2>11, <2>13 DEF Spots
  <2>15. arr[a] \in Int /\ arr[b] \in Int
    BY <1>3, <2>14 DEF SortArrays
  <2>16. a < b \/ b < a
    BY <2>13, <2>14
  <2>. QED BY <1>1, <2>14, <2>15, <2>16 DEF SortInvOf, EndInv
<1>. QED BY <1>6, <1>7, <1>8, <1>9, <1>10

\* bubble_sort, selection_sort and quick_sort lose no element, keep what they are through
\* with in place, return only a sorted array, and quick_sort returns only if no two
\* elements were equal: for every array of any length up to every bound.
THEOREM SortSound ==
  Arrays!Spec => [](Arrays!TypeOK /\ Arrays!NothingIsLost /\ Arrays!RangesAreSeparate /\ Arrays!EndsSorted
                    /\ Arrays!QuickNeedsDistinct)
<1>1. Arrays!Init => SortInv
  BY SortInit
<1>2. SortInv /\ [Arrays!Next]_Arrays!vars => SortInv'
  BY SortStep
<1>3. SortInv => Arrays!TypeOK /\ Arrays!NothingIsLost /\ Arrays!RangesAreSeparate /\ Arrays!EndsSorted
                 /\ Arrays!QuickNeedsDistinct
  BY SortSays
<1>. QED BY <1>1, <1>2, <1>3, PTL DEF Arrays!Spec

----------------------------------------------------------------------
(***************************************************************************)
(* AvlTree, for every set of elements and any number of nodes.  A node is  *)
(* numbered after its parent (Linked), so that what is defined by going up *)
(* or down the tree can be reasoned about from the first node on (Upward)  *)
(* or from the last one back (Downward).                                   *)
(***************************************************************************)

AvlNode == [element : Elements, depth : Nat, parent : Nat, lchild : Nat, rchild : Nat]

\* Parent and child pointers are each other's inverse, and go up and down in number.
Linked(t) ==
    /\ t \in Seq(AvlNode)
    /\ \A n \in 1 .. Len(t) :
          /\ t[n].parent \in 0 .. n - 1
          /\ t[n].parent # 0 => n = t[t[n].parent].lchild \/ n = t[t[n].parent].rchild
          /\ t[n].lchild # 0 => t[n].lchild \in n + 1 .. Len(t) /\ t[t[n].lchild].parent = n /\ t[n].lchild # t[n].rchild
          /\ t[n].rchild # 0 => t[n].rchild \in n + 1 .. Len(t) /\ t[t[n].rchild].parent = n

\* Above of AvlTree, of a tree t.
AboveEq(t, g) == g = [n \in 0 .. Len(t) |-> IF n = 0 THEN {} ELSE {n} \cup g[t[n].parent]]
Up(t) == CHOOSE g : AboveEq(t, g)

\* What holds of a node if it does of all before it holds of every node.
LEMMA Upward ==
  ASSUME NEW m \in Nat, NEW S, \A n \in 1 .. m : (\A x \in 1 .. n - 1 : x \in S) => n \in S
  PROVE  \A n \in 1 .. m : n \in S
<1>. DEFINE Bad == {n \in 1 .. m : n \notin S}
<1>1. SUFFICES ASSUME Bad # {} PROVE FALSE
  OBVIOUS
<1>2. Bad \in SUBSET Nat
  OBVIOUS
<1>3. PICK from \in Bad : \A y \in Bad : from <= y
  BY <1>1, <1>2, LeastNat
<1>4. \A x \in 1 .. from - 1 : x \in S
  BY <1>3
<1>. QED BY <1>3, <1>4

\* What holds of a node if it does of all after it holds of every node.
LEMMA Downward ==
  ASSUME NEW m \in Nat, NEW S, \A n \in 1 .. m : (\A x \in n + 1 .. m : x \in S) => n \in S
  PROVE  \A n \in 1 .. m : n \in S
<1>. DEFINE Good == {from \in 0 .. m : \A x \in from + 1 .. m : x \in S}
<1>1. Good \in SUBSET Nat /\ m \in Good
  OBVIOUS
<1>2. PICK from \in Good : \A y \in Good : from <= y
  BY <1>1, LeastNat
<1>3. CASE from = 0
  BY <1>2, <1>3
<1>4. CASE from # 0
  <2>1. from \in 1 .. m /\ \A x \in from + 1 .. m : x \in S
    BY <1>2, <1>4
  <2>2. from \in S
    BY <2>1
  <2>3. \A x \in (from - 1) + 1 .. m : x \in S
    BY <2>1, <2>2
  <2>4. from - 1 \in Good /\ from - 1 < from
    BY <2>1, <2>3
  <2>. QED BY <1>2, <2>1, <2>4
<1>. QED BY <1>3, <1>4

\* The equation of Above has a solution.
LEMMA UpIs ==
  ASSUME NEW t, Linked(t)
  PROVE  /\ DOMAIN Up(t) = 0 .. Len(t) /\ Up(t)[0] = {} /\ Len(t) \in Nat
         /\ \A n \in 1 .. Len(t) : Up(t)[n] = {n} \cup Up(t)[t[n].parent]
<1>. DEFINE m == Len(t)
            Eq(g, from) == g = [n \in 0 .. from |-> IF n = 0 THEN {} ELSE {n} \cup g[t[n].parent]]
            Bad == {from \in 0 .. m : ~\E g : Eq(g, from)}
<1>0. m \in Nat /\ \A n \in 1 .. m : t[n].parent \in 0 .. n - 1
  BY DEF Linked
<1>. HIDE DEF m
<1>1. \A from \in 0 .. m : \E g : Eq(g, from)
  <2>1. SUFFICES ASSUME Bad # {} PROVE FALSE
    OBVIOUS
  <2>2. Bad \in SUBSET Nat
    BY <1>0
  <2>3. PICK from \in Bad : \A y \in Bad : from <= y
    BY <2>1, <2>2, LeastNat
  <2>4. from \in 0 .. m /\ ~\E g : Eq(g, from)
    BY <2>3
  <2>5. CASE from = 0
    <3>. DEFINE h == [x \in 0 .. from |-> {}]
    <3>1. Eq(h, from)
      BY <2>5
    <3>. QED BY <2>4, <3>1
  <2>6. CASE from # 0
    <3>1. from \in 1 .. m /\ from - 1 \in 0 .. m /\ from - 1 < from
      BY <1>0, <2>4, <2>6
    <3>2. from - 1 \notin Bad
      <4>. HIDE DEF Bad
      <4>1. from \in Int /\ from - 1 \in Int
        BY <3>1
      <4>. QED BY <2>3, <3>1, <4>1
    <3>3. \E g : Eq(g, from - 1)
      BY <3>1, <3>2
    <3>4. PICK g : Eq(g, from - 1)
      BY <3>3
    <3>5. \A n \in 0 .. from - 1 : g[n] = IF n = 0 THEN {} ELSE {n} \cup g[t[n].parent]
      BY <3>4
    <3>. DEFINE h == [x \in 0 .. from |-> IF x = from THEN {from} \cup g[t[from].parent] ELSE g[x]]
    <3>6. ASSUME NEW n \in 0 .. from PROVE h[n] = IF n = 0 THEN {} ELSE {n} \cup h[t[n].parent]
      <4>1. CASE n = 0
        <5>1. n # from /\ n \in 0 .. from - 1
          BY <2>6, <3>1, <4>1
        <5>2. g[n] = {}
          BY <3>5, <4>1, <5>1
        <5>. QED BY <4>1, <5>1, <5>2
      <4>2. CASE n # 0
        <5>1. n \in 1 .. m /\ t[n].parent \in 0 .. n - 1
          BY <1>0, <3>1, <4>2
        <5>2. t[n].parent \in 0 .. from - 1 /\ h[t[n].parent] = g[t[n].parent]
          BY <3>1, <5>1
        <5>3. n # from => n \in 0 .. from - 1
          BY <3>1
        <5>. QED BY <3>5, <4>2, <5>2, <5>3
      <4>. QED BY <4>1, <4>2
    <3>7. h = [n \in 0 .. from |-> IF n = 0 THEN {} ELSE {n} \cup h[t[n].parent]]
      <4>. DEFINE h2 == [n \in 0 .. from |-> IF n = 0 THEN {} ELSE {n} \cup h[t[n].parent]]
      <4>1. \A n \in 0 .. from : h[n] = h2[n]
        BY <3>6
      <4>. QED BY <4>1
    <3>. HIDE DEF h
    <3>8. Eq(h, from)
      BY <3>7
    <3>. QED BY <2>4, <3>8
  <2>. QED BY <2>5, <2>6
<1>2. \E g : AboveEq(t, g)
  <2>1. m \in 0 .. m
    BY <1>0
  <2>2. \E g : Eq(g, m)
    BY <1>1, <2>1
  <2>. QED BY <2>2, Zenon DEF AboveEq, m
<1>3. AboveEq(t, Up(t))
  BY <1>2, Zenon DEF Up
<1>4. Up(t) = [n \in 0 .. m |-> IF n = 0 THEN {} ELSE {n} \cup Up(t)[t[n].parent]]
  BY <1>3, Zenon DEF AboveEq, m
<1>. QED BY <1>0, <1>4 DEF m

\* A node and those above it: numbered no higher, and all above any of them.
LEMMA UpFacts ==
  ASSUME NEW t, Linked(t), NEW n \in 1 .. Len(t)
  PROVE  n \in Up(t)[n] /\ Up(t)[n] \subseteq 1 .. n /\ \A a \in Up(t)[n] : Up(t)[a] \subseteq Up(t)[n]
<1>. DEFINE m == Len(t)
            S == {x \in 1 .. m : x \in Up(t)[x] /\ Up(t)[x] \subseteq 1 .. x /\ \A a \in Up(t)[x] : Up(t)[a] \subseteq Up(t)[x]}
<1>0. m \in Nat /\ \A x \in 1 .. m : t[x].parent \in 0 .. x - 1
  BY DEF Linked
<1>1. Up(t)[0] = {} /\ \A x \in 1 .. m : Up(t)[x] = {x} \cup Up(t)[t[x].parent]
  BY UpIs
<1>. HIDE DEF m
<1>2. ASSUME NEW x \in 1 .. m, \A y \in 1 .. x - 1 : y \in S PROVE x \in S
  <2>1. Up(t)[x] = {x} \cup Up(t)[t[x].parent]
    BY <1>1
  <2>2. CASE t[x].parent = 0
    BY <1>1, <2>1, <2>2
  <2>3. CASE t[x].parent # 0
    <3>1. t[x].parent \in 1 .. x - 1 /\ 1 .. t[x].parent \subseteq 1 .. x
      <4>. HIDE DEF S
      <4>. QED BY <1>0, <2>3
    <3>2. t[x].parent \in S
      <4>. HIDE DEF S
      <4>. QED BY <1>2, <3>1, Zenon
    <3>3. Up(t)[t[x].parent] \subseteq 1 .. t[x].parent
      BY <3>2, Zenon
    <3>. QED BY <2>1, <3>1, <3>2, <3>3
  <2>. QED BY <2>2, <2>3
<1>. HIDE DEF S
<1>3. \A x \in 1 .. m : x \in S
  BY <1>0, <1>2, Upward
<1>. QED BY <1>3 DEF S, m

\* What is above a node depends on the parents only.
LEMMA UpSame ==
  ASSUME NEW t, Linked(t), NEW u, Linked(u), NEW from \in Nat, from <= Len(t), from <= Len(u),
         \A n \in 1 .. from : u[n].parent = t[n].parent
  PROVE  \A n \in 0 .. from : Up(u)[n] = Up(t)[n]
<1>. DEFINE S == {n \in 1 .. from : Up(u)[n] = Up(t)[n]}
<1>0. Len(t) \in Nat /\ Len(u) \in Nat /\ (\A n \in 1 .. Len(t) : t[n].parent \in 0 .. n - 1)
  BY DEF Linked
<1>1. /\ Up(t)[0] = {} /\ \A n \in 1 .. from : Up(t)[n] = {n} \cup Up(t)[t[n].parent]
      /\ Up(u)[0] = {} /\ \A n \in 1 .. from : Up(u)[n] = {n} \cup Up(u)[t[n].parent]
  <2>1. \A n \in 1 .. from : n \in 1 .. Len(t) /\ n \in 1 .. Len(u)
    BY <1>0
  <2>2. Up(t)[0] = {} /\ \A n \in 1 .. Len(t) : Up(t)[n] = {n} \cup Up(t)[t[n].parent]
    BY UpIs
  <2>3. Up(u)[0] = {} /\ \A n \in 1 .. Len(u) : Up(u)[n] = {n} \cup Up(u)[u[n].parent]
    BY UpIs
  <2>. QED BY <2>1, <2>2, <2>3
<1>2. ASSUME NEW n \in 1 .. from, \A x \in 1 .. n - 1 : x \in S PROVE n \in S
  <2>1. t[n].parent \in 0 .. n - 1
    BY <1>0
  <2>2. t[n].parent # 0 => t[n].parent \in S
    BY <1>2, <2>1
  <2>3. Up(u)[t[n].parent] = Up(t)[t[n].parent]
    BY <1>1, <2>2, Zenon
  <2>4. Up(u)[n] = {n} \cup Up(u)[t[n].parent] /\ Up(t)[n] = {n} \cup Up(t)[t[n].parent]
    BY <1>1, Zenon
  <2>. QED BY <2>3, <2>4
<1>. HIDE DEF S
<1>3. \A n \in 1 .. from : n \in S
  BY <1>2, Upward
<1>4. \A n \in 0 .. from : n = 0 \/ n \in 1 .. from
  OBVIOUS
<1>. QED BY <1>1, <1>3, <1>4 DEF S

\* What is under a node is the node itself, or under one of its children.
LEMMA UpChild ==
  ASSUME NEW t, Linked(t), NEW n \in 1 .. Len(t), NEW d \in 1 .. Len(t), n \in Up(t)[d], d # n
  PROVE  \/ t[n].lchild # 0 /\ t[n].lchild \in Up(t)[d]
         \/ t[n].rchild # 0 /\ t[n].rchild \in Up(t)[d]
<1>. DEFINE Has(x) == \/ t[n].lchild # 0 /\ t[n].lchild \in Up(t)[x]
                      \/ t[n].rchild # 0 /\ t[n].rchild \in Up(t)[x]
            S == {x \in 1 .. Len(t) : n \in Up(t)[x] /\ x # n => Has(x)}
<1>0. Len(t) \in Nat /\ (\A x \in 1 .. Len(t) : /\ t[x].parent \in 0 .. x - 1
         /\ t[x].parent # 0 => x = t[t[x].parent].lchild \/ x = t[t[x].parent].rchild)
  BY DEF Linked
<1>1. /\ Up(t)[0] = {} /\ \A x \in 1 .. Len(t) : Up(t)[x] = {x} \cup Up(t)[t[x].parent]
  BY UpIs
<1>2. ASSUME NEW x \in 1 .. Len(t), \A y \in 1 .. x - 1 : y \in S PROVE x \in S
  <2>1. SUFFICES ASSUME n \in Up(t)[x], x # n PROVE Has(x)
    OBVIOUS
  <2>2. n \in Up(t)[t[x].parent] /\ t[x].parent # 0
    BY <1>1, <2>1
  <2>3. t[x].parent \in 1 .. x - 1 /\ x \in Up(t)[x] /\ Up(t)[t[x].parent] \subseteq Up(t)[x]
    <3>1. t[x].parent \in 0 .. x - 1
      BY DEF Linked
    <3>2. Up(t)[x] = {x} \cup Up(t)[t[x].parent]
      BY <1>1
    <3>. QED BY <2>2, <3>1, <3>2
  <2>4. CASE t[x].parent = n
    BY <1>0, <2>2, <2>3, <2>4
  <2>5. CASE t[x].parent # n
    <3>1. Has(t[x].parent)
      BY <1>2, <2>2, <2>3, <2>5
    <3>. QED BY <2>3, <3>1
  <2>. QED BY <2>4, <2>5
<1>. HIDE DEF S
<1>3. \A x \in 1 .. Len(t) : x \in S
  BY <1>0, <1>2, Upward
<1>. QED BY <1>3 DEF S

\* A node is under one child of a node only.
LEMMA UpApart ==
  ASSUME NEW t, Linked(t), NEW n \in 1 .. Len(t), NEW d \in 1 .. Len(t), t[n].lchild # 0, t[n].rchild # 0
  PROVE  ~(t[n].lchild \in Up(t)[d] /\ t[n].rchild \in Up(t)[d])
<1>. DEFINE l == t[n].lchild
            r == t[n].rchild
            S == {x \in 1 .. Len(t) : ~(l \in Up(t)[x] /\ r \in Up(t)[x])}
<1>0. /\ Len(t) \in Nat /\ l \in n + 1 .. Len(t) /\ r \in n + 1 .. Len(t) /\ l # r
      /\ t[l].parent = n /\ t[r].parent = n
      /\ \A x \in 1 .. Len(t) : t[x].parent \in 0 .. x - 1
  BY DEF Linked
<1>1. /\ Up(t)[0] = {} /\ \A x \in 1 .. Len(t) : Up(t)[x] = {x} \cup Up(t)[t[x].parent]
  BY UpIs
<1>2. /\ Len(t) \in Nat /\ l \in Int /\ r \in Int /\ n < l /\ n < r
      /\ l \notin 1 .. n /\ r \notin 1 .. n
  <2>1. /\ Len(t) \in Nat /\ n \in 1 .. Len(t) /\ l \in n + 1 .. Len(t) /\ r \in n + 1 .. Len(t)
    BY <1>0, Zenon
  <2>. HIDE DEF l, r
  <2>2. n \in Int /\ n + 1 \in Int /\ l \in Int /\ r \in Int /\ n < l /\ n < r
    BY <2>1
  <2>. QED BY <2>1, <2>2
<1>3. Up(t)[n] \subseteq 1 .. n
  BY UpFacts
<1>. HIDE DEF l, r
<1>4. ASSUME NEW x \in 1 .. Len(t), \A y \in 1 .. x - 1 : y \in S PROVE x \in S
  <2>1. SUFFICES ASSUME l \in Up(t)[x], r \in Up(t)[x] PROVE FALSE
    OBVIOUS
  <2>2. CASE x = l \/ x = r
    <3>1. Up(t)[x] = {x} \cup Up(t)[n]
      BY <1>0, <1>1, <2>2
    <3>2. l \notin Up(t)[n] /\ r \notin Up(t)[n]
      BY <1>3, <1>2, Zenon
    <3>. QED BY <1>0, <2>1, <2>2, <3>1, <3>2
  <2>3. CASE x # l /\ x # r
    <3>1. l \in Up(t)[t[x].parent] /\ r \in Up(t)[t[x].parent]
      BY <1>1, <2>1, <2>3
    <3>2. t[x].parent # 0
      BY <1>1, <3>1
    <3>3. t[x].parent \in 1 .. x - 1
      <4>1. t[x].parent \in 0 .. x - 1 /\ x \in 1 .. Len(t) /\ Len(t) \in Nat
        BY <1>0, Zenon
      <4>. QED BY <3>2, <4>1
    <3>4. t[x].parent \in S
      <4>. HIDE DEF S
      <4>. QED BY <1>4, <3>3, Zenon
    <3>. QED BY <3>1, <3>4, Zenon
  <2>. QED BY <2>2, <2>3
<1>. HIDE DEF S
<1>5. \A x \in 1 .. Len(t) : x \in S
  BY <1>0, <1>4, Upward
<1>. QED BY <1>5 DEF S, l, r

----------------------------------------------------------------------------
\* The order of the display: by element, and of equal ones the latest first.
Before(t, a, b) == t[a].element < t[b].element \/ (t[a].element = t[b].element /\ a > b)

\* What is under the left child is before the node, under the right one after it.
Searchable(t) == \A n, d \in 1 .. Len(t) :
    /\ t[n].lchild # 0 /\ t[n].lchild \in Up(t)[d] => Before(t, d, n)
    /\ t[n].rchild # 0 /\ t[n].rchild \in Up(t)[d] => Before(t, n, d)

DepthOf(t, n) == IF n = 0 THEN 0 ELSE t[n].depth
LocalDepth(t, n) == t[n].depth = 1 + (IF DepthOf(t, t[n].lchild) >= DepthOf(t, t[n].rchild)
                                      THEN DepthOf(t, t[n].lchild) ELSE DepthOf(t, t[n].rchild))

AvlTypes ==
    /\ Linked(tree) /\ Len(tree) <= MaxNodes
    /\ tr = (IF Len(tree) = 0 THEN 0 ELSE 1)
    /\ np \in 0 .. Len(tree) /\ pos4 \in 0 .. Len(tree) /\ pc4 \in {"idle", "insert", "recover"}
    /\ \A n \in 1 .. Len(tree) : tree[n].depth >= 1 /\ tree[n].depth <= Len(tree) - n + 1
    /\ \A n \in 2 .. Len(tree) : tree[n].parent = 0 => pc4 = "insert" /\ n = np
    /\ pc4 = "idle" => np = 0
    /\ pc4 = "insert" => /\ np = Len(tree) /\ tree[np].parent = 0 /\ tree[np].lchild = 0 /\ tree[np].rchild = 0
                         /\ pos4 \in 1 .. Len(tree) - 1

DepthInv == \A n \in 1 .. Len(tree) : LocalDepth(tree, n) \/ (pc4 = "recover" /\ n \in Up(tree)[np])

\* np's place is under pos.
PathInv == pc4 = "insert" => \A n \in 1 .. Len(tree) :
    /\ tree[n].lchild # 0 /\ tree[n].lchild \in Up(tree)[pos4] => Before(tree, np, n)
    /\ tree[n].rchild # 0 /\ tree[n].rchild \in Up(tree)[pos4] => Before(tree, n, np)

AvlInv == AvlTypes /\ DepthInv /\ Searchable(tree) /\ PathInv

\* What the assumption says of the tree.
LEMMA AvlConstants == Elements \subseteq Nat /\ MaxNodes \in Nat
  BY SequentialAssumption DEF Avl!AvlTreeAssumption

\* There is no node yet.
LEMMA AvlInit == Avl!Init => AvlInv
<1>. SUFFICES ASSUME Avl!Init PROVE AvlInv
  OBVIOUS
<1>1. tree = <<>> /\ Len(tree) = 0 /\ tr = 0 /\ np = 0 /\ pos4 = 0 /\ pc4 = "idle"
  BY DEF Avl!Init, Avl!NULL
<1>2. tree \in Seq(AvlNode) /\ 1 .. Len(tree) = {} /\ 2 .. Len(tree) = {}
  BY <1>1
<1>3. Linked(tree)
  BY <1>2 DEF Linked
<1>. QED BY <1>1, <1>2, <1>3, AvlConstants DEF AvlInv, AvlTypes, DepthInv, Searchable, PathInv

\* A new node: it is not in the tree yet, or is its root.
LEMMA InsertKeeps == ASSUME AvlInv, NEW el \in Elements, Avl!insert(el) PROVE AvlInv'
<1>. DEFINE m == Len(tree)
            new == [element |-> el, depth |-> 1, parent |-> 0, lchild |-> 0, rchild |-> 0]
            t == tree
            u == Append(tree, new)
<1>0. /\ pc4 = "idle" /\ m < MaxNodes /\ tree' = u /\ np' = m + 1
      /\ IF tr = 0 THEN tr' = m + 1 /\ pc4' = "recover" /\ pos4' = pos4
         ELSE pos4' = tr /\ pc4' = "insert" /\ tr' = tr
  BY DEF Avl!insert, Avl!NULL
<1>1. Linked(tree) /\ m \in Nat /\ new \in AvlNode /\ tree \in Seq(AvlNode)
  BY DEF AvlInv, AvlTypes, Linked, AvlNode
<1>. HIDE DEF m
<1>2. u \in Seq(AvlNode) /\ Len(u) = m + 1 /\ u[m + 1] = new /\ \A n \in 1 .. m : u[n] = t[n]
  BY <1>1 DEF m
<1>3. \A n \in 1 .. m + 1 : n = m + 1 \/ n \in 1 .. m
  BY <1>1
<1>4. Linked(u)
  <2>1. ASSUME NEW n \in 1 .. m
        PROVE  /\ u[n].parent \in 0 .. n - 1
               /\ u[n].parent # 0 => n = u[u[n].parent].lchild \/ n = u[u[n].parent].rchild
               /\ u[n].lchild # 0 => u[n].lchild \in n + 1 .. m + 1 /\ u[u[n].lchild].parent = n /\ u[n].lchild # u[n].rchild
               /\ u[n].rchild # 0 => u[n].rchild \in n + 1 .. m + 1 /\ u[u[n].rchild].parent = n
    <3>1. u[n] = t[n]
      BY <1>2
    <3>2. /\ t[n].parent \in 0 .. n - 1
          /\ t[n].parent # 0 => n = t[t[n].parent].lchild \/ n = t[t[n].parent].rchild
          /\ t[n].lchild # 0 => t[n].lchild \in n + 1 .. m /\ t[t[n].lchild].parent = n /\ t[n].lchild # t[n].rchild
          /\ t[n].rchild # 0 => t[n].rchild \in n + 1 .. m /\ t[t[n].rchild].parent = n
      BY <1>1 DEF Linked, m
    <3>3. t[n].parent # 0 => u[t[n].parent] = t[t[n].parent]
      <4>1. t[n].parent # 0 => t[n].parent \in 1 .. m
        BY <1>1, <3>2
      <4>. QED BY <1>2, <4>1
    <3>4. t[n].lchild # 0 => t[n].lchild \in n + 1 .. m + 1 /\ u[t[n].lchild] = t[t[n].lchild]
      BY <1>1, <1>2, <3>2
    <3>5. t[n].rchild # 0 => t[n].rchild \in n + 1 .. m + 1 /\ u[t[n].rchild] = t[t[n].rchild]
      BY <1>1, <1>2, <3>2
    <3>. QED BY <3>1, <3>2, <3>3, <3>4, <3>5
  <2>2. u[m + 1].parent \in 0 .. (m + 1) - 1 /\ u[m + 1].parent = 0 /\ u[m + 1].lchild = 0 /\ u[m + 1].rchild = 0
    BY <1>1, <1>2
  <2>. HIDE DEF u
  <2>. QED BY <1>2, <1>3, <2>1, <2>2 DEF Linked
<1>. HIDE DEF u
<1>5. \A n \in 0 .. m : Up(u)[n] = Up(t)[n]
  <2>1. m <= Len(u) /\ m <= Len(t) /\ \A n \in 1 .. m : u[n].parent = t[n].parent
    BY <1>1, <1>2 DEF m
  <2>. QED BY <1>1, <1>4, <2>1, UpSame
<1>6. Up(u)[m + 1] = {m + 1}
  <2>1. m + 1 \in 1 .. Len(u) /\ u[m + 1].parent = 0
    BY <1>1, <1>2
  <2>. QED BY <1>4, <2>1, UpIs
<1>7. \A n \in 1 .. m : Up(u)[n] \subseteq 1 .. m /\ Up(t)[n] \subseteq 1 .. n /\ n \in Up(t)[n]
  <2>1. ASSUME NEW n \in 1 .. m PROVE Up(u)[n] \subseteq 1 .. m /\ Up(t)[n] \subseteq 1 .. n /\ n \in Up(t)[n]
    <3>1. Up(t)[n] \subseteq 1 .. n /\ n \in Up(t)[n]
      BY <1>1, UpFacts DEF m
    <3>2. n \in 0 .. m
      OBVIOUS
    <3>. QED BY <1>1, <1>5, <3>1, <3>2
  <2>. QED BY <2>1
<1>8. \A n \in 1 .. m : (t[n].lchild # 0 => t[n].lchild \in 1 .. m) /\ (t[n].rchild # 0 => t[n].rchild \in 1 .. m)
  BY <1>1 DEF Linked, m
<1>9. AvlTypes'
  <2>1. \A n \in 1 .. m : t[n].depth >= 1 /\ t[n].depth <= m - n + 1
    BY DEF AvlInv, AvlTypes, m
  <2>2. \A n \in 1 .. m + 1 : u[n].depth >= 1 /\ u[n].depth <= (m + 1) - n + 1
    <3>1. u[m + 1].depth = 1
      BY <1>2
    <3>2. ASSUME NEW n \in 1 .. m PROVE u[n].depth >= 1 /\ u[n].depth <= (m + 1) - n + 1
      <4>1. t[n] \in AvlNode /\ u[n] = t[n]
        BY <1>1, <1>2 DEF m
      <4>2. t[n].depth \in Nat
        BY <4>1 DEF AvlNode
      <4>. QED BY <1>1, <2>1, <4>1, <4>2
    <3>. QED BY <1>1, <1>3, <3>1, <3>2
  <2>3. \A n \in 2 .. m : t[n].parent # 0
    BY <1>0 DEF AvlInv, AvlTypes, m
  <2>4. \A n \in 2 .. m + 1 : u[n].parent = 0 => n = m + 1
    BY <1>1, <1>2, <2>3
  <2>5. tr = (IF m = 0 THEN 0 ELSE 1) /\ pos4 \in 0 .. m
    BY DEF AvlInv, AvlTypes, m
  <2>6. Len(tree') = m + 1 /\ tree' = u /\ np' = m + 1
    BY <1>0, <1>2
  <2>7. \A n \in 2 .. m + 1 : u[n].parent = 0 => pc4' = "insert" /\ n = np'
    BY <1>0, <1>1, <2>4, <2>5
  <2>8. m + 1 <= MaxNodes /\ m + 1 \in 0 .. m + 1
    BY <1>0, <1>1, AvlConstants
  <2>9. u[m + 1].parent = 0 /\ u[m + 1].lchild = 0 /\ u[m + 1].rchild = 0
    BY <1>2
  <2>10. pc4' \in {"insert", "recover"} /\ tr' = 1 /\ pos4' \in 0 .. m + 1 /\ (pc4' = "insert" => pos4' \in 1 .. (m + 1) - 1)
    BY <1>0, <1>1, <2>5
  <2>11. tr' = IF m + 1 = 0 THEN 0 ELSE 1
    BY <1>1, <2>10
  <2>. QED BY <1>4, <2>2, <2>6, <2>7, <2>8, <2>9, <2>10, <2>11 DEF AvlTypes
<1>10. DepthInv'
  <2>1. ASSUME NEW n \in 1 .. m PROVE LocalDepth(u, n)
    <3>1. LocalDepth(t, n)
      BY <1>0 DEF AvlInv, DepthInv, m
    <3>2. u[n] = t[n] /\ (t[n].lchild # 0 => u[t[n].lchild] = t[t[n].lchild])
          /\ (t[n].rchild # 0 => u[t[n].rchild] = t[t[n].rchild])
      BY <1>2, <1>8
    <3>. QED BY <3>1, <3>2 DEF LocalDepth, DepthOf
  <2>2. LocalDepth(u, m + 1)
    BY <1>2 DEF LocalDepth, DepthOf
  <2>3. tree' = u /\ Len(u) = m + 1
    BY <1>0, <1>2
  <2>. QED BY <1>3, <2>1, <2>2, <2>3 DEF DepthInv
<1>11. \A a, b \in 1 .. m : Before(t, a, b) => Before(u, a, b)
  BY <1>2 DEF Before
<1>12. Searchable(u)
  <2>. SUFFICES ASSUME NEW n \in 1 .. m + 1, NEW d \in 1 .. m + 1
                PROVE  /\ u[n].lchild # 0 /\ u[n].lchild \in Up(u)[d] => Before(u, d, n)
                       /\ u[n].rchild # 0 /\ u[n].rchild \in Up(u)[d] => Before(u, n, d)
    BY <1>2 DEF Searchable
  <2>1. CASE n = m + 1
    BY <1>2, <2>1
  <2>2. CASE n \in 1 .. m /\ d = m + 1
    <3>1. u[n] = t[n] /\ m + 1 \notin 1 .. m
      BY <1>1, <1>2, <2>2
    <3>. QED BY <1>6, <1>8, <2>2, <3>1
  <2>3. CASE n \in 1 .. m /\ d \in 1 .. m
    <3>1. u[n] = t[n] /\ Up(u)[d] = Up(t)[d]
      BY <1>2, <1>5, <2>3
    <3>2. /\ t[n].lchild # 0 /\ t[n].lchild \in Up(t)[d] => Before(t, d, n)
          /\ t[n].rchild # 0 /\ t[n].rchild \in Up(t)[d] => Before(t, n, d)
      BY <2>3 DEF AvlInv, Searchable, m
    <3>. QED BY <1>11, <2>3, <3>1, <3>2
  <2>. QED BY <1>3, <2>1, <2>2, <2>3
<1>13. PathInv'
  <2>. SUFFICES ASSUME pc4' = "insert", NEW n \in 1 .. m + 1
                PROVE  ~(u[n].lchild # 0 /\ u[n].lchild \in Up(u)[1]) /\ ~(u[n].rchild # 0 /\ u[n].rchild \in Up(u)[1])
    <3>1. pc4' = "insert" => tr # 0
      BY <1>0
    <3>2. pc4' = "insert" => pos4' = 1
      BY <1>0, <3>1 DEF AvlInv, AvlTypes
    <3>3. tree' = u /\ Len(u) = m + 1
      BY <1>0, <1>2
    <3>. QED BY <3>2, <3>3 DEF PathInv
  <2>1. 1 \in 1 .. Len(u)
    BY <1>1, <1>2
  <2>2. Up(u)[1] \subseteq 1 .. 1
    BY <1>4, <2>1, UpFacts
  <2>3. (u[n].lchild # 0 => u[n].lchild \in n + 1 .. m + 1) /\ (u[n].rchild # 0 => u[n].rchild \in n + 1 .. m + 1)
    BY <1>2, <1>4 DEF Linked
  <2>. QED BY <1>1, <2>2, <2>3
<1>. QED BY <1>0, <1>9, <1>10, <1>12, <1>13 DEF AvlInv

\* One call of insert_into_tree: on to a child, or np becomes the child.
LEMMA DownKeeps ==
  ASSUME AvlInv, pc4 = "insert", UNCHANGED <<tree, tr, np, pc4>>,
         \/ pos4' = tree[pos4].lchild /\ Before(tree, np, pos4)
         \/ pos4' = tree[pos4].rchild /\ Before(tree, pos4, np),
         pos4' # 0
  PROVE  AvlInv'
<1>. DEFINE m == Len(tree)
            t == tree
            c == pos4'
<1>1. /\ Linked(t) /\ m \in Nat /\ np = m /\ pos4 \in 1 .. m - 1 /\ pos4 \in 1 .. m /\ t[np].parent = 0
  BY DEF AvlInv, AvlTypes, Linked
<1>2. c \in 1 .. m /\ t[c].parent = pos4 /\ c \in 1 .. m - 1
  <2>1. c \in pos4 + 1 .. m /\ t[c].parent = pos4
    BY <1>1 DEF Linked
  <2>. QED BY <1>1, <2>1
<1>3. Up(t)[c] = {c} \cup Up(t)[pos4]
  BY <1>1, <1>2, UpIs
<1>4. PathInv'
  <2>. SUFFICES ASSUME NEW n \in 1 .. m
                PROVE  /\ t[n].lchild # 0 /\ t[n].lchild \in Up(t)[c] => Before(t, np, n)
                       /\ t[n].rchild # 0 /\ t[n].rchild \in Up(t)[c] => Before(t, n, np)
    BY DEF PathInv
  <2>1. /\ t[n].lchild # 0 => t[t[n].lchild].parent = n /\ t[n].lchild # t[n].rchild
        /\ t[n].rchild # 0 => t[t[n].rchild].parent = n
    BY <1>1 DEF Linked
  <2>2. /\ t[n].lchild # 0 /\ t[n].lchild \in Up(t)[pos4] => Before(t, np, n)
        /\ t[n].rchild # 0 /\ t[n].rchild \in Up(t)[pos4] => Before(t, n, np)
    BY DEF AvlInv, PathInv
  <2>3. t[n].lchild # 0 /\ t[n].lchild = c => n = pos4 /\ Before(t, np, n)
    BY <1>2, <2>1
  <2>4. t[n].rchild # 0 /\ t[n].rchild = c => n = pos4 /\ Before(t, n, np)
    BY <1>2, <2>1
  <2>. QED BY <1>3, <2>2, <2>3, <2>4
<1>5. AvlTypes'
  BY <1>1, <1>2 DEF AvlInv, AvlTypes
<1>6. DepthInv' /\ Searchable(tree)'
  BY DEF AvlInv, DepthInv
<1>. QED BY <1>4, <1>5, <1>6 DEF AvlInv

\* A place is free: np is the child of pos from now on.
LinkedTo(t, u, m, at0, left) ==
    /\ u \in Seq(AvlNode) /\ Len(u) = m
    /\ \A n \in 1 .. m : /\ u[n].element = t[n].element /\ u[n].depth = t[n].depth
                         /\ u[n].parent = (IF n = m THEN at0 ELSE t[n].parent)
                         /\ u[n].lchild = (IF n = at0 /\ left THEN m ELSE t[n].lchild)
                         /\ u[n].rchild = (IF n = at0 /\ ~left THEN m ELSE t[n].rchild)

\* What the assignment to the pointers does.
LEMMA LinkIs ==
  ASSUME NEW t \in Seq(AvlNode), NEW at0 \in 1 .. Len(t) - 1,
         NEW left \in BOOLEAN, NEW u,
         u = (IF left THEN [t EXCEPT ![Len(t)].parent = at0, ![at0]["lchild"] = Len(t)]
              ELSE [t EXCEPT ![Len(t)].parent = at0, ![at0]["rchild"] = Len(t)])
  PROVE  LinkedTo(t, u, Len(t), at0, left)
<1>. DEFINE m == Len(t)
            a == [t[m] EXCEPT !.parent = at0]
            b == IF left THEN [t[at0] EXCEPT !.lchild = m] ELSE [t[at0] EXCEPT !.rchild = m]
<1>1. m \in Nat /\ DOMAIN t = 1 .. m /\ at0 \in 1 .. m /\ at0 # m /\ m \in 1 .. m /\ at0 \in Nat /\ \A n \in 1 .. m : t[n] \in AvlNode
  OBVIOUS
<1>2. u = [t EXCEPT ![m] = a, ![at0] = b]
  BY <1>1
<1>3. /\ a \in AvlNode /\ a.parent = at0 /\ a.element = t[m].element /\ a.depth = t[m].depth
      /\ a.lchild = t[m].lchild /\ a.rchild = t[m].rchild
  BY <1>1 DEF AvlNode
<1>4. /\ b \in AvlNode /\ b.parent = t[at0].parent /\ b.element = t[at0].element /\ b.depth = t[at0].depth
      /\ b.lchild = (IF left THEN m ELSE t[at0].lchild) /\ b.rchild = (IF left THEN t[at0].rchild ELSE m)
  BY <1>1 DEF AvlNode
<1>. HIDE DEF a, b, m
<1>5. u \in Seq(AvlNode) /\ Len(u) = m /\ u[m] = a /\ u[at0] = b /\ \A n \in 1 .. m : n # m /\ n # at0 => u[n] = t[n]
  <2>. DEFINE v == [t EXCEPT ![m] = a]
  <2>0. Len(t) = m
    BY DEF m
  <2>1. v \in Seq(AvlNode) /\ Len(v) = m /\ \A n \in 1 .. m : v[n] = IF n = m THEN a ELSE t[n]
    BY <1>1, <1>3, <2>0, ExceptSeq
  <2>2. u = [v EXCEPT ![at0] = b]
    BY <1>2
  <2>. HIDE DEF v
  <2>3. at0 \in 1 .. Len(v) /\ v \in Seq(AvlNode) /\ b \in AvlNode
    BY <1>1, <1>4, <2>1
  <2>4. /\ [v EXCEPT ![at0] = b] \in Seq(AvlNode) /\ Len([v EXCEPT ![at0] = b]) = Len(v)
        /\ \A n \in 1 .. Len(v) : [v EXCEPT ![at0] = b][n] = IF n = at0 THEN b ELSE v[n]
    BY <2>3, ExceptSeq
  <2>. QED BY <1>1, <2>1, <2>2, <2>4
<1>6. ASSUME NEW n \in 1 .. m
      PROVE  /\ u[n].element = t[n].element /\ u[n].depth = t[n].depth
             /\ u[n].parent = (IF n = m THEN at0 ELSE t[n].parent)
             /\ u[n].lchild = (IF n = at0 /\ left THEN m ELSE t[n].lchild)
             /\ u[n].rchild = (IF n = at0 /\ ~left THEN m ELSE t[n].rchild)
  <2>1. CASE n = m
    BY <1>1, <1>3, <1>5, <2>1
  <2>2. CASE n = at0
    BY <1>1, <1>4, <1>5, <2>2
  <2>3. CASE n # m /\ n # at0
    BY <1>5, <2>3
  <2>. QED BY <2>1, <2>2, <2>3
<1>. QED BY <1>5, <1>6 DEF LinkedTo, m

\* np gets its place: what is under its parent and above it has been compared on the way.
LEMMA LinkKeeps ==
  ASSUME AvlInv, pc4 = "insert", UNCHANGED <<tr, np, pos4>>, pc4' = "recover",
         NEW left \in BOOLEAN, LinkedTo(tree, tree', Len(tree), pos4, left),
         left => tree[pos4].lchild = 0 /\ Before(tree, np, pos4),
         ~left => tree[pos4].rchild = 0 /\ Before(tree, pos4, np)
  PROVE  AvlInv'
<1>0. PICK t : t = tree
  OBVIOUS
<1>00. PICK u : u = tree'
  OBVIOUS
<1>000. PICK q : q = pos4
  OBVIOUS
<1>. DEFINE m == Len(t)
<1>1. /\ Linked(t) /\ m \in Nat /\ np = m /\ q \in 1 .. m - 1 /\ q \in 1 .. m /\ m \in 1 .. m /\ q # m
      /\ t[m].parent = 0 /\ t[m].lchild = 0 /\ t[m].rchild = 0 /\ t \in Seq(AvlNode)
  BY <1>0, <1>000 DEF AvlInv, AvlTypes, Linked
<1>. HIDE DEF m
<1>2. /\ u \in Seq(AvlNode) /\ Len(u) = m
      /\ \A n \in 1 .. m : /\ u[n].element = t[n].element /\ u[n].depth = t[n].depth
                           /\ u[n].parent = (IF n = m THEN q ELSE t[n].parent)
                           /\ u[n].lchild = (IF n = q /\ left THEN m ELSE t[n].lchild)
                           /\ u[n].rchild = (IF n = q /\ ~left THEN m ELSE t[n].rchild)
  BY <1>0, <1>00, <1>000 DEF LinkedTo, m
<1>3. \A n \in 1 .. m :
          /\ t[n].parent \in 0 .. n - 1
          /\ t[n].parent # 0 => n = t[t[n].parent].lchild \/ n = t[t[n].parent].rchild
          /\ t[n].lchild # 0 => t[n].lchild \in n + 1 .. m /\ t[t[n].lchild].parent = n /\ t[n].lchild # t[n].rchild
          /\ t[n].rchild # 0 => t[n].rchild \in n + 1 .. m /\ t[t[n].rchild].parent = n
  BY <1>1 DEF Linked, m
<1>4. \A n \in 1 .. m : /\ t[n].lchild # 0 => t[n].lchild \in 1 .. m /\ t[n].lchild # m /\ t[n].lchild \in n + 1 .. m
                        /\ t[n].rchild # 0 => t[n].rchild \in 1 .. m /\ t[n].rchild # m /\ t[n].rchild \in n + 1 .. m
  <2>. SUFFICES ASSUME NEW n \in 1 .. m
                PROVE  /\ t[n].lchild # 0 => t[n].lchild \in 1 .. m /\ t[n].lchild # m /\ t[n].lchild \in n + 1 .. m
                       /\ t[n].rchild # 0 => t[n].rchild \in 1 .. m /\ t[n].rchild # m /\ t[n].rchild \in n + 1 .. m
    OBVIOUS
  <2>1. n # 0 /\ t[m].parent # n
    BY <1>1
  <2>2. t[n].lchild # 0 => t[n].lchild \in n + 1 .. m /\ t[t[n].lchild].parent = n
    BY <1>3
  <2>3. t[n].rchild # 0 => t[n].rchild \in n + 1 .. m /\ t[t[n].rchild].parent = n
    BY <1>3
  <2>. QED BY <1>1, <2>1, <2>2, <2>3
<1>5. Linked(u)
  <2>. SUFFICES ASSUME NEW n \in 1 .. m
        PROVE  /\ u[n].parent \in 0 .. n - 1
               /\ u[n].parent # 0 => n = u[u[n].parent].lchild \/ n = u[u[n].parent].rchild
               /\ u[n].lchild # 0 => u[n].lchild \in n + 1 .. m /\ u[u[n].lchild].parent = n /\ u[n].lchild # u[n].rchild
               /\ u[n].rchild # 0 => u[n].rchild \in n + 1 .. m /\ u[u[n].rchild].parent = n
    BY <1>2 DEF Linked
  <2>0. t[n].parent \in 0 .. n - 1
    BY <1>3
  <2>00. u[n].parent = (IF n = m THEN q ELSE t[n].parent)
    BY <1>2
  <2>1. u[n].parent \in 0 .. n - 1
    BY <1>1, <2>0, <2>00
  <2>2. ASSUME u[n].parent # 0 PROVE n = u[u[n].parent].lchild \/ n = u[u[n].parent].rchild
    <3>1. CASE n = m
      BY <1>1, <1>2, <3>1
    <3>2. CASE n # m
      <4>1. u[n].parent = t[n].parent /\ t[n].parent \in 1 .. m
        BY <1>1, <2>0, <2>00, <2>2, <3>2
      <4>2. n = t[t[n].parent].lchild \/ n = t[t[n].parent].rchild
        BY <1>3, <2>2, <4>1
      <4>3. /\ left => t[q].lchild = 0
            /\ ~left => t[q].rchild = 0
        BY <1>0, <1>000
      <4>4. u[t[n].parent].lchild = (IF t[n].parent = q /\ left THEN m ELSE t[t[n].parent].lchild)
            /\ u[t[n].parent].rchild = (IF t[n].parent = q /\ ~left THEN m ELSE t[t[n].parent].rchild)
        BY <1>2, <4>1
      <4>5. n # 0
        OBVIOUS
      <4>. QED BY <4>1, <4>2, <4>3, <4>4, <4>5
    <3>. QED BY <3>1, <3>2
  <2>3. ASSUME u[n].lchild # 0
        PROVE  u[n].lchild \in n + 1 .. m /\ u[u[n].lchild].parent = n /\ u[n].lchild # u[n].rchild
    <3>1. CASE n = q /\ left
      <4>1. u[n].lchild = m /\ u[n].rchild = t[n].rchild /\ u[m].parent = n
        BY <1>1, <1>2, <3>1
      <4>. QED BY <1>1, <1>4, <3>1, <4>1
    <3>2. CASE ~(n = q /\ left)
      <4>1. u[n].lchild = t[n].lchild /\ t[n].lchild # 0
        BY <1>2, <2>3, <3>2
      <4>2. t[n].lchild \in 1 .. m /\ t[n].lchild # m
        BY <1>4, <4>1
      <4>3. u[t[n].lchild].parent = t[t[n].lchild].parent
        BY <1>2, <4>2
      <4>4. u[n].rchild = t[n].rchild \/ u[n].rchild = m
        BY <1>2
      <4>. QED BY <1>3, <4>1, <4>2, <4>3, <4>4
    <3>. QED BY <3>1, <3>2
  <2>4. ASSUME u[n].rchild # 0
        PROVE  u[n].rchild \in n + 1 .. m /\ u[u[n].rchild].parent = n
    <3>1. CASE n = q /\ ~left
      BY <1>1, <1>2, <3>1
    <3>2. CASE ~(n = q /\ ~left)
      <4>1. u[n].rchild = t[n].rchild /\ t[n].rchild # 0
        BY <1>2, <2>4, <3>2
      <4>2. t[n].rchild \in 1 .. m /\ t[n].rchild # m
        BY <1>4, <4>1
      <4>3. u[t[n].rchild].parent = t[t[n].rchild].parent
        BY <1>2, <4>2
      <4>. QED BY <1>3, <4>1, <4>2, <4>3
    <3>. QED BY <3>1, <3>2
  <2>. QED BY <2>1, <2>2, <2>3, <2>4
<1>6. \A n \in 0 .. m - 1 : Up(u)[n] = Up(t)[n]
  <2>1. m - 1 \in Nat /\ m - 1 <= Len(t) /\ m - 1 <= Len(u) /\ \A n \in 1 .. m - 1 : u[n].parent = t[n].parent
    BY <1>1, <1>2 DEF m
  <2>. QED BY <1>1, <1>5, <2>1, UpSame
<1>7. Up(u)[m] = {m} \cup Up(t)[q]
  <2>1. Up(u)[m] = {m} \cup Up(u)[q]
    <3>1. m \in 1 .. Len(u) /\ u[m].parent = q
      BY <1>1, <1>2
    <3>. QED BY <1>5, <3>1, UpIs
  <2>2. q \in 0 .. m - 1
    BY <1>1
  <2>. QED BY <1>6, <2>1, <2>2
<1>8. \A n \in 1 .. m : Up(t)[n] \subseteq 1 .. n /\ n \in Up(t)[n]
  BY <1>1, UpFacts DEF m
<1>9. AvlTypes'
  <2>1. Len(tree') = m /\ tree' = u /\ Len(tree) = m /\ tree = t
    BY <1>0, <1>00, <1>2 DEF m
  <2>2. m <= MaxNodes /\ tr = (IF m = 0 THEN 0 ELSE 1) /\ np \in 0 .. m /\ pos4 \in 0 .. m
        /\ \A n \in 1 .. m : t[n].depth >= 1 /\ t[n].depth <= m - n + 1
    BY <2>1 DEF AvlInv, AvlTypes
  <2>3. \A n \in 2 .. m : t[n].parent = 0 => n = m
    BY <1>1, <2>1 DEF AvlInv, AvlTypes
  <2>4. \A n \in 2 .. m : u[n].parent # 0
    BY <1>1, <1>2, <2>3
  <2>5. \A n \in 1 .. m : u[n].depth >= 1 /\ u[n].depth <= m - n + 1
    BY <1>2, <2>2
  <2>. QED BY <1>5, <2>1, <2>2, <2>4, <2>5 DEF AvlTypes
<1>10. DepthInv'
  <2>1. tree' = u /\ Len(u) = m /\ np' = m
    BY <1>00, <1>1, <1>2
  <2>. SUFFICES ASSUME NEW n \in 1 .. m PROVE LocalDepth(u, n) \/ n \in Up(u)[m]
    BY <2>1 DEF DepthInv
  <2>2. CASE n = q
    BY <1>1, <1>7, <1>8, <2>2
  <2>3. CASE n # q
    <3>1. u[n].lchild = t[n].lchild /\ u[n].rchild = t[n].rchild /\ u[n].depth = t[n].depth
      BY <1>2, <2>3
    <3>2. (t[n].lchild # 0 => u[t[n].lchild].depth = t[t[n].lchild].depth)
          /\ (t[n].rchild # 0 => u[t[n].rchild].depth = t[t[n].rchild].depth)
      BY <1>2, <1>4
    <3>3. LocalDepth(t, n)
      BY <1>0 DEF AvlInv, DepthInv, m
    <3>. QED BY <3>1, <3>2, <3>3 DEF LocalDepth, DepthOf
  <2>. QED BY <2>2, <2>3
<1>11. \A a, b \in 1 .. m : Before(u, a, b) <=> Before(t, a, b)
  BY <1>2 DEF Before
<1>12. Searchable(u)
  <2>. SUFFICES ASSUME NEW n \in 1 .. m, NEW d \in 1 .. m
                PROVE  /\ u[n].lchild # 0 /\ u[n].lchild \in Up(u)[d] => Before(u, d, n)
                       /\ u[n].rchild # 0 /\ u[n].rchild \in Up(u)[d] => Before(u, n, d)
    BY <1>2 DEF Searchable
  <2>1. m \in Up(u)[d] => d = m
    <3>1. d # m => d \in 0 .. m - 1 /\ Up(u)[d] \subseteq 1 .. d
      BY <1>1, <1>6, <1>8
    <3>. QED BY <1>1, <3>1
  <2>2. /\ left => Before(t, m, q)
        /\ ~left => Before(t, q, m)
    BY <1>0, <1>000, <1>1
  <2>3. ASSUME NEW c \in 1 .. m, c # m, c \in Up(u)[d], d # m PROVE c \in Up(t)[d]
    <3>1. d \in 0 .. m - 1
      BY <1>1, <2>3
    <3>. QED BY <1>6, <2>3, <3>1
  <2>4. ASSUME NEW c \in 1 .. m, c # m, c \in Up(u)[d], d = m PROVE c \in Up(t)[q]
    BY <1>7, <2>4
  <2>5. /\ t[n].lchild # 0 /\ t[n].lchild \in Up(t)[d] => Before(t, d, n)
        /\ t[n].rchild # 0 /\ t[n].rchild \in Up(t)[d] => Before(t, n, d)
    BY <1>0 DEF AvlInv, Searchable, m
  <2>6. /\ t[n].lchild # 0 /\ t[n].lchild \in Up(t)[q] => Before(t, m, n)
        /\ t[n].rchild # 0 /\ t[n].rchild \in Up(t)[q] => Before(t, n, m)
    BY <1>0, <1>000, <1>1 DEF AvlInv, PathInv, m
  <2>7. ASSUME u[n].lchild # 0, u[n].lchild \in Up(u)[d] PROVE Before(t, d, n)
    <3>1. CASE n = q /\ left
      BY <1>2, <2>1, <2>2, <2>7, <3>1
    <3>2. CASE ~(n = q /\ left)
      <4>1. u[n].lchild = t[n].lchild
        BY <1>2, <3>2
      <4>. QED BY <1>4, <2>3, <2>4, <2>5, <2>6, <2>7, <4>1
    <3>. QED BY <3>1, <3>2
  <2>8. ASSUME u[n].rchild # 0, u[n].rchild \in Up(u)[d] PROVE Before(t, n, d)
    <3>1. CASE n = q /\ ~left
      BY <1>2, <2>1, <2>2, <2>8, <3>1
    <3>2. CASE ~(n = q /\ ~left)
      <4>1. u[n].rchild = t[n].rchild
        BY <1>2, <3>2
      <4>. QED BY <1>4, <2>3, <2>4, <2>5, <2>6, <2>8, <4>1
    <3>. QED BY <3>1, <3>2
  <2>. QED BY <1>11, <2>7, <2>8
<1>13. PathInv'
  BY DEF PathInv
<1>. QED BY <1>00, <1>9, <1>10, <1>12, <1>13 DEF AvlInv

\* A call of insert_into_tree is one or the other.
LEMMA InsertIntoTreeKeeps == ASSUME AvlInv, Avl!insert_into_tree PROVE AvlInv'
<1>. DEFINE left == Avl!GoesLeft(pos4)
<1>1. /\ pc4 = "insert" /\ tr' = tr /\ np' = np /\ pos4 \in 1 .. Len(tree) - 1 /\ np = Len(tree) /\ tree \in Seq(AvlNode)
      /\ Elements \subseteq Nat /\ Len(tree) \in Nat
  BY AvlConstants DEF AvlInv, AvlTypes, Linked, Avl!insert_into_tree
<1>2. left \in BOOLEAN /\ (left => Before(tree, np, pos4)) /\ (~left => Before(tree, pos4, np))
  <2>1. tree[np] \in AvlNode /\ tree[pos4] \in AvlNode /\ np > pos4
    BY <1>1
  <2>2. tree[np].element \in Nat /\ tree[pos4].element \in Nat
    BY <1>1, <2>1 DEF AvlNode
  <2>. QED BY <2>1, <2>2 DEF Avl!GoesLeft, Before
<1>3. CASE left
  <2>1. IF tree[pos4].lchild = 0
        THEN /\ tree' = [tree EXCEPT ![np].parent = pos4, ![pos4]["lchild"] = np] /\ pc4' = "recover" /\ pos4' = pos4
        ELSE pos4' = tree[pos4].lchild /\ tree' = tree /\ pc4' = pc4
    BY <1>3 DEF Avl!insert_into_tree, Avl!Link, Avl!NULL
  <2>2. CASE tree[pos4].lchild = 0
    <3>1. LinkedTo(tree, tree', Len(tree), pos4, TRUE)
      BY <1>1, <2>1, <2>2, LinkIs
    <3>. QED BY <1>1, <1>2, <1>3, <2>1, <2>2, <3>1, LinkKeeps
  <2>3. CASE tree[pos4].lchild # 0
    BY <1>1, <1>2, <1>3, <2>1, <2>3, DownKeeps
  <2>. QED BY <2>2, <2>3
<1>4. CASE ~left
  <2>1. IF tree[pos4].rchild = 0
        THEN /\ tree' = [tree EXCEPT ![np].parent = pos4, ![pos4]["rchild"] = np] /\ pc4' = "recover" /\ pos4' = pos4
        ELSE pos4' = tree[pos4].rchild /\ tree' = tree /\ pc4' = pc4
    BY <1>4 DEF Avl!insert_into_tree, Avl!Link, Avl!NULL
  <2>2. CASE tree[pos4].rchild = 0
    <3>1. LinkedTo(tree, tree', Len(tree), pos4, FALSE)
      BY <1>1, <2>1, <2>2, LinkIs
    <3>. QED BY <1>1, <1>2, <1>4, <2>1, <2>2, <3>1, LinkKeeps
  <2>3. CASE tree[pos4].rchild # 0
    BY <1>1, <1>2, <1>4, <2>1, <2>3, DownKeeps
  <2>. QED BY <2>2, <2>3
<1>. QED BY <1>3, <1>4

\* One node's depth is put right.
Deepened(t, u, q) ==
    /\ u \in Seq(AvlNode) /\ Len(u) = Len(t)
    /\ \A n \in 1 .. Len(t) : /\ u[n].element = t[n].element /\ u[n].parent = t[n].parent
                              /\ u[n].lchild = t[n].lchild /\ u[n].rchild = t[n].rchild
                              /\ n # q => u[n].depth = t[n].depth
    /\ u[q].depth = 1 + (IF DepthOf(t, t[q].lchild) >= DepthOf(t, t[q].rchild)
                         THEN DepthOf(t, t[q].lchild) ELSE DepthOf(t, t[q].rchild))

\* What update_depth does.
LEMMA UpdateIs ==
  ASSUME Linked(tree), NEW q \in 1 .. Len(tree) PROVE Deepened(tree, Avl!update_depth(q), q)
<1>. DEFINE t == tree
            l == DepthOf(t, t[q].lchild)
            r == DepthOf(t, t[q].rchild)
            top0 == (IF l >= r THEN l ELSE r) + 1
            b == [t[q] EXCEPT !.depth = top0]
            u == [t EXCEPT ![q] = b]
<1>1. t \in Seq(AvlNode) /\ (\A n \in 1 .. Len(t) : t[n] \in AvlNode) /\ q \in 1 .. Len(t) /\ q \in DOMAIN t
  BY DEF Linked
<1>2. l \in Nat /\ r \in Nat
  <2>1. /\ t[q].lchild # 0 => t[q].lchild \in 1 .. Len(t)
        /\ t[q].rchild # 0 => t[q].rchild \in 1 .. Len(t)
    BY DEF Linked
  <2>. QED BY <1>1, <2>1 DEF DepthOf, AvlNode
<1>3. Avl!update_depth(q) = u
  BY <1>1 DEF Avl!update_depth, Avl!getdepth, Avl!NULL, DepthOf
<1>. HIDE DEF l, r
<1>4. top0 \in Nat /\ top0 = 1 + (IF l >= r THEN l ELSE r)
  BY <1>2
<1>. HIDE DEF top0
<1>5. /\ b \in AvlNode /\ b.element = t[q].element /\ b.parent = t[q].parent /\ b.lchild = t[q].lchild
      /\ b.rchild = t[q].rchild /\ b.depth = top0
  BY <1>1, <1>4 DEF AvlNode
<1>. HIDE DEF b
<1>6. u \in Seq(AvlNode) /\ Len(u) = Len(t) /\ \A n \in 1 .. Len(t) : u[n] = IF n = q THEN b ELSE t[n]
  BY <1>1, <1>5, ExceptSeq
<1>. HIDE DEF u
<1>7. u[q].depth = 1 + (IF l >= r THEN l ELSE r)
  BY <1>1, <1>4, <1>5, <1>6
<1>8. ASSUME NEW n \in 1 .. Len(t)
      PROVE  /\ u[n].element = t[n].element /\ u[n].parent = t[n].parent
             /\ u[n].lchild = t[n].lchild /\ u[n].rchild = t[n].rchild
             /\ n # q => u[n].depth = t[n].depth
  BY <1>5, <1>6
<1>9. u[q].depth = 1 + (IF DepthOf(t, t[q].lchild) >= DepthOf(t, t[q].rchild)
                        THEN DepthOf(t, t[q].lchild) ELSE DepthOf(t, t[q].rchild))
  BY <1>7 DEF l, r
<1>. QED BY <1>3, <1>6, <1>8, <1>9 DEF Deepened

\* A turn of recover_avl: one node less has a depth that may be wrong.
LEMMA RecoverKeeps == ASSUME AvlInv, Avl!recover_avl PROVE AvlInv'
<1>0. PICK t : t = tree
  OBVIOUS
<1>00. PICK u : u = tree'
  OBVIOUS
<1>000. PICK q : q = np
  OBVIOUS
<1>. DEFINE m == Len(t)
<1>1. /\ pc4 = "recover" /\ pc4' = "recover" /\ tr' = tr /\ pos4' = pos4 /\ q # 0 /\ np' = t[q].parent
      /\ tree' = Avl!update_depth(np)
  BY <1>0, <1>000 DEF Avl!recover_avl, Avl!NULL
<1>2. Linked(t) /\ m \in Nat /\ q \in 1 .. m /\ t \in Seq(AvlNode)
  BY <1>0, <1>000, <1>1 DEF AvlInv, AvlTypes, Linked
<1>3. Deepened(t, u, q)
  BY <1>0, <1>00, <1>000, <1>1, <1>2, UpdateIs
<1>. HIDE DEF m
<1>4. /\ u \in Seq(AvlNode) /\ Len(u) = m
      /\ \A n \in 1 .. m : /\ u[n].element = t[n].element /\ u[n].parent = t[n].parent
                           /\ u[n].lchild = t[n].lchild /\ u[n].rchild = t[n].rchild
                           /\ n # q => u[n].depth = t[n].depth
      /\ u[q].depth = 1 + (IF DepthOf(t, t[q].lchild) >= DepthOf(t, t[q].rchild)
                           THEN DepthOf(t, t[q].lchild) ELSE DepthOf(t, t[q].rchild))
  BY <1>3 DEF Deepened, m
<1>5. \A n \in 1 .. m :
          /\ t[n].parent \in 0 .. n - 1
          /\ t[n].parent # 0 => n = t[t[n].parent].lchild \/ n = t[t[n].parent].rchild
          /\ t[n].lchild # 0 => t[n].lchild \in n + 1 .. m /\ t[t[n].lchild].parent = n /\ t[n].lchild # t[n].rchild
          /\ t[n].rchild # 0 => t[n].rchild \in n + 1 .. m /\ t[t[n].rchild].parent = n
  BY <1>2 DEF Linked, m
<1>6. \A n \in 1 .. m : /\ t[n].parent # 0 => t[n].parent \in 1 .. m
                        /\ t[n].lchild # 0 => t[n].lchild \in 1 .. m /\ t[n].lchild # n /\ t[n].lchild >= n + 1
                        /\ t[n].rchild # 0 => t[n].rchild \in 1 .. m /\ t[n].rchild # n /\ t[n].rchild >= n + 1
  <2>. SUFFICES ASSUME NEW n \in 1 .. m
                PROVE  /\ t[n].parent # 0 => t[n].parent \in 1 .. m
                       /\ t[n].lchild # 0 => t[n].lchild \in 1 .. m /\ t[n].lchild # n /\ t[n].lchild >= n + 1
                       /\ t[n].rchild # 0 => t[n].rchild \in 1 .. m /\ t[n].rchild # n /\ t[n].rchild >= n + 1
    OBVIOUS
  <2>1. t[n].parent \in 0 .. n - 1
    BY <1>5
  <2>2. t[n].lchild # 0 => t[n].lchild \in n + 1 .. m
    BY <1>5
  <2>3. t[n].rchild # 0 => t[n].rchild \in n + 1 .. m
    BY <1>5
  <2>. QED BY <1>2, <2>1, <2>2, <2>3
<1>7. Linked(u)
  <2>. SUFFICES ASSUME NEW n \in 1 .. m
        PROVE  /\ u[n].parent \in 0 .. n - 1
               /\ u[n].parent # 0 => n = u[u[n].parent].lchild \/ n = u[u[n].parent].rchild
               /\ u[n].lchild # 0 => u[n].lchild \in n + 1 .. m /\ u[u[n].lchild].parent = n /\ u[n].lchild # u[n].rchild
               /\ u[n].rchild # 0 => u[n].rchild \in n + 1 .. m /\ u[u[n].rchild].parent = n
    BY <1>4 DEF Linked
  <2>1. u[n].parent = t[n].parent /\ u[n].lchild = t[n].lchild /\ u[n].rchild = t[n].rchild
    BY <1>4
  <2>2. t[n].parent # 0 => u[t[n].parent].lchild = t[t[n].parent].lchild /\ u[t[n].parent].rchild = t[t[n].parent].rchild
    BY <1>4, <1>6
  <2>3. /\ t[n].lchild # 0 => u[t[n].lchild].parent = t[t[n].lchild].parent
        /\ t[n].rchild # 0 => u[t[n].rchild].parent = t[t[n].rchild].parent
    BY <1>4, <1>6
  <2>. QED BY <1>5, <2>1, <2>2, <2>3
<1>8. \A n \in 0 .. m : Up(u)[n] = Up(t)[n]
  <2>1. m <= Len(t) /\ m <= Len(u) /\ \A n \in 1 .. m : u[n].parent = t[n].parent
    BY <1>2, <1>4 DEF m
  <2>. QED BY <1>2, <1>7, <2>1, UpSame
<1>9. Len(tree') = m /\ tree' = u /\ Len(tree) = m /\ tree = t /\ np' = t[q].parent
  BY <1>0, <1>00, <1>1, <1>4 DEF m
<1>10. \A n \in 1 .. m : t[n].depth >= 1 /\ t[n].depth <= m - n + 1 /\ t[n].depth \in Nat
  <2>1. \A n \in 1 .. m : t[n] \in AvlNode
    BY <1>2 DEF m
  <2>2. \A n \in 1 .. m : t[n].depth \in Nat
    BY <2>1 DEF AvlNode
  <2>. QED BY <1>9, <2>2 DEF AvlInv, AvlTypes
<1>11. DepthOf(t, t[q].lchild) \in 0 .. m - q /\ DepthOf(t, t[q].rchild) \in 0 .. m - q
  <2>1. \A c \in 1 .. m : c >= q + 1 => t[c].depth \in 0 .. m - q
    <3>. SUFFICES ASSUME NEW c \in 1 .. m, c >= q + 1 PROVE t[c].depth \in 0 .. m - q
      OBVIOUS
    <3>1. t[c].depth >= 1 /\ t[c].depth <= m - c + 1 /\ t[c].depth \in Nat
      BY <1>10
    <3>. QED BY <1>2, <3>1
  <2>2. 0 \in 0 .. m - q
    BY <1>2
  <2>. QED BY <1>2, <1>6, <2>1, <2>2 DEF DepthOf
<1>12. AvlTypes'
  <2>1. m <= MaxNodes /\ tr = (IF m = 0 THEN 0 ELSE 1) /\ pos4 \in 0 .. m
    BY <1>9 DEF AvlInv, AvlTypes
  <2>2. t[q].parent \in 0 .. m
    <3>1. t[q].parent \in 0 .. q - 1
      BY <1>2, <1>5
    <3>. QED BY <1>2, <3>1
  <2>3. \A n \in 2 .. m : t[n].parent # 0
    BY <1>1, <1>9 DEF AvlInv, AvlTypes
  <2>4. \A n \in 2 .. m : u[n].parent # 0
    BY <1>2, <1>4, <2>3
  <2>5. \A n \in 1 .. m : u[n].depth >= 1 /\ u[n].depth <= m - n + 1
    <3>. SUFFICES ASSUME NEW n \in 1 .. m PROVE u[n].depth >= 1 /\ u[n].depth <= m - n + 1
      OBVIOUS
    <3>1. CASE n = q
      <4>1. u[q].depth >= 1 /\ u[q].depth <= m - q + 1
        BY <1>2, <1>4, <1>11
      <4>. QED BY <3>1, <4>1
    <3>2. CASE n # q
      BY <1>4, <1>10, <3>2
    <3>. QED BY <3>1, <3>2
  <2>. QED BY <1>1, <1>7, <1>9, <2>1, <2>2, <2>4, <2>5 DEF AvlTypes
<1>13. DepthInv'
  <2>. SUFFICES ASSUME NEW n \in 1 .. m PROVE LocalDepth(u, n) \/ n \in Up(u)[t[q].parent]
    BY <1>1, <1>9 DEF DepthInv
  <2>1. Up(u)[t[q].parent] = Up(t)[t[q].parent] /\ Up(t)[q] = {q} \cup Up(t)[t[q].parent]
    <3>1. t[q].parent \in 0 .. q - 1
      BY <1>2, <1>5
    <3>2. t[q].parent \in 0 .. m
      BY <1>2, <3>1
    <3>3. q \in 1 .. Len(t)
      BY <1>2 DEF m
    <3>. QED BY <1>2, <1>8, <3>2, <3>3, UpIs
  <2>2. u[n].lchild = t[n].lchild /\ u[n].rchild = t[n].rchild
    BY <1>4
  <2>3. ASSUME t[n].lchild # q, t[n].rchild # q
        PROVE  DepthOf(u, t[n].lchild) = DepthOf(t, t[n].lchild) /\ DepthOf(u, t[n].rchild) = DepthOf(t, t[n].rchild)
    <3>1. t[n].lchild # 0 => u[t[n].lchild].depth = t[t[n].lchild].depth
      BY <1>4, <1>6, <2>3
    <3>2. t[n].rchild # 0 => u[t[n].rchild].depth = t[t[n].rchild].depth
      BY <1>4, <1>6, <2>3
    <3>. QED BY <3>1, <3>2 DEF DepthOf
  <2>4. CASE n = q
    <3>1. t[n].lchild # q /\ t[n].rchild # q
      BY <1>2, <1>6, <2>4
    <3>. QED BY <1>4, <2>2, <2>3, <2>4, <3>1 DEF LocalDepth
  <2>5. CASE n # q /\ t[q].parent = n
    <3>1. n \in Up(t)[n]
      BY <1>2, UpFacts DEF m
    <3>. QED BY <2>1, <2>5, <3>1
  <2>6. CASE n # q /\ t[q].parent # n
    <3>1. t[n].lchild # q /\ t[n].rchild # q
      BY <1>1, <1>5, <2>6
    <3>2. LocalDepth(t, n) \/ n \in Up(t)[q]
      BY <1>000, <1>9 DEF AvlInv, DepthInv
    <3>3. u[n].depth = t[n].depth
      BY <1>4, <2>6
    <3>4. LocalDepth(t, n) => LocalDepth(u, n)
      BY <2>2, <2>3, <3>1, <3>3 DEF LocalDepth
    <3>. QED BY <2>1, <2>6, <3>2, <3>4
  <2>. QED BY <2>4, <2>5, <2>6
<1>14. \A a, b \in 1 .. m : Before(u, a, b) <=> Before(t, a, b)
  BY <1>4 DEF Before
<1>15. Searchable(u)
  <2>. SUFFICES ASSUME NEW n \in 1 .. m, NEW d \in 1 .. m
                PROVE  /\ u[n].lchild # 0 /\ u[n].lchild \in Up(u)[d] => Before(u, d, n)
                       /\ u[n].rchild # 0 /\ u[n].rchild \in Up(u)[d] => Before(u, n, d)
    BY <1>4 DEF Searchable
  <2>1. Up(u)[d] = Up(t)[d] /\ u[n].lchild = t[n].lchild /\ u[n].rchild = t[n].rchild
    <3>1. d \in 0 .. m
      OBVIOUS
    <3>. QED BY <1>4, <1>8, <3>1
  <2>2. /\ t[n].lchild # 0 /\ t[n].lchild \in Up(t)[d] => Before(t, d, n)
        /\ t[n].rchild # 0 /\ t[n].rchild \in Up(t)[d] => Before(t, n, d)
    BY <1>9 DEF AvlInv, Searchable
  <2>. QED BY <1>14, <2>1, <2>2
<1>16. PathInv'
  BY <1>1 DEF PathInv
<1>. QED BY <1>00, <1>12, <1>13, <1>15, <1>16 DEF AvlInv

\* Every step of insert keeps the invariant.
LEMMA AvlStep == ASSUME AvlInv, [Avl!Next]_Avl!vars PROVE AvlInv'
<1>1. CASE UNCHANGED Avl!vars
  BY <1>1 DEF Avl!vars, AvlInv, AvlTypes, DepthInv, PathInv
<1>2. CASE Avl!recovered
  <2>1. tree' = tree /\ tr' = tr /\ np' = np /\ pos4' = pos4 /\ pc4 = "recover" /\ np = 0 /\ pc4' = "idle"
    BY <1>2 DEF Avl!recovered, Avl!NULL
  <2>2. Up(tree)[0] = {}
    BY UpIs DEF AvlInv, AvlTypes
  <2>3. AvlTypes'
    BY <2>1 DEF AvlInv, AvlTypes
  <2>4. DepthInv'
    BY <2>1, <2>2 DEF AvlInv, DepthInv
  <2>. QED BY <2>1, <2>3, <2>4 DEF AvlInv, PathInv
<1>. QED BY <1>1, <1>2, InsertKeeps, InsertIntoTreeKeeps, RecoverKeeps DEF Avl!Next

----------------------------------------------------------------------------
\* The level of a node, counted from the root.
Level(t, d) == Cardinality(Up(t)[d])
Under(t, n) == {d \in 1 .. Len(t) : n \in Up(t)[d]}

\* There are finitely many nodes above a node.
LEMMA LevelIs ==
  ASSUME NEW t, Linked(t), NEW d \in 1 .. Len(t)
  PROVE  IsFiniteSet(Up(t)[d]) /\ Level(t, d) \in Nat
<1>1. Up(t)[d] \subseteq 1 .. d
  BY UpFacts
<1>2. IsFiniteSet(1 .. d)
  BY FS_Interval
<1>3. IsFiniteSet(Up(t)[d])
  BY <1>1, <1>2, FS_Subset
<1>. QED BY <1>3, FS_CardinalityType DEF Level

\* A child is one level down, and what is under it is under its parent.
LEMMA ChildLevel ==
  ASSUME NEW t, Linked(t), NEW n \in 1 .. Len(t), NEW c \in {t[n].lchild, t[n].rchild}, c # 0
  PROVE  /\ c \in n + 1 .. Len(t) /\ c \in 1 .. Len(t) /\ Up(t)[c] = {c} \cup Up(t)[n] /\ c \notin Up(t)[n]
         /\ Level(t, n) \in Nat /\ Level(t, c) = Level(t, n) + 1
         /\ Under(t, c) \subseteq Under(t, n) /\ n \notin Under(t, c)
<1>1. Len(t) \in Nat /\ c \in n + 1 .. Len(t) /\ t[c].parent = n
  BY DEF Linked
<1>2. c \in 1 .. Len(t) /\ c > n
  BY <1>1
<1>3. Up(t)[c] = {c} \cup Up(t)[n]
  BY <1>1, <1>2, UpIs
<1>4. Up(t)[n] \subseteq 1 .. n /\ n \in Up(t)[n]
  BY UpFacts
<1>5. c \notin Up(t)[n]
  BY <1>2, <1>4
<1>6. IsFiniteSet(Up(t)[n])
  BY LevelIs
<1>7. Level(t, n) \in Nat
  BY LevelIs
<1>8. Cardinality(Up(t)[n] \cup {c}) = Cardinality(Up(t)[n]) + 1
  BY <1>5, <1>6, FS_AddElement
<1>9. Up(t)[c] = Up(t)[n] \cup {c}
  BY <1>3
<1>10. \A d \in 1 .. Len(t) : c \in Up(t)[d] => n \in Up(t)[d]
  <2>1. \A d \in 1 .. Len(t) : \A a \in Up(t)[d] : Up(t)[a] \subseteq Up(t)[d]
    BY UpFacts
  <2>. QED BY <1>3, <1>4, <2>1
<1>. QED BY <1>1, <1>2, <1>3, <1>5, <1>7, <1>8, <1>9, <1>10 DEF Level, Under

\* n's depth is the height of its subtree.
HeightOK(t, n) == /\ \A d \in Under(t, n) : Level(t, d) <= Level(t, n) + t[n].depth - 1
                  /\ \E d \in Under(t, n) : Level(t, d) = Level(t, n) + t[n].depth - 1

\* Depths that follow from those of the children all the way down are heights.
LEMMA HeightIs ==
  ASSUME NEW t, Linked(t), \A x \in 1 .. Len(t) : t[x].depth \in Nat \ {0}
  PROVE  \A n \in 1 .. Len(t) : (\A d \in Under(t, n) : LocalDepth(t, d)) => HeightOK(t, n)
<1>. DEFINE m == Len(t)
            S == {n \in 1 .. m : (\A d \in Under(t, n) : LocalDepth(t, d)) => HeightOK(t, n)}
<1>0. m \in Nat
  BY DEF Linked
<1>1. ASSUME NEW n \in 1 .. m, \A x \in n + 1 .. m : x \in S PROVE n \in S
  <2>. SUFFICES ASSUME \A d \in Under(t, n) : LocalDepth(t, d) PROVE HeightOK(t, n)
    OBVIOUS
  <2>. DEFINE l == t[n].lchild
              r == t[n].rchild
  <2>1. ASSUME NEW c \in {l, r}, c # 0
        PROVE  /\ c \in 1 .. m /\ c \in n + 1 .. m /\ Level(t, n) \in Nat /\ Level(t, c) = Level(t, n) + 1 /\ Under(t, c) \subseteq Under(t, n)
               /\ HeightOK(t, c) /\ t[c].depth \in Nat \ {0}
    <3>1. /\ c \in 1 .. m /\ c \in n + 1 .. m /\ Level(t, n) \in Nat /\ Level(t, c) = Level(t, n) + 1 /\ Under(t, c) \subseteq Under(t, n)
      BY <2>1, ChildLevel
    <3>2. c \in S
      BY <1>1, <3>1
    <3>. QED BY <3>1, <3>2
  <2>2. n \in Under(t, n) /\ Up(t)[n] \subseteq 1 .. n
    BY UpFacts DEF Under
  <2>3. Level(t, n) \in Nat
    BY LevelIs
  <2>4. t[n].depth = 1 + (IF DepthOf(t, l) >= DepthOf(t, r) THEN DepthOf(t, l) ELSE DepthOf(t, r))
    BY <2>2 DEF LocalDepth
  <2>5. /\ (l = 0 => DepthOf(t, l) = 0) /\ (l # 0 => DepthOf(t, l) = t[l].depth)
        /\ (r = 0 => DepthOf(t, r) = 0) /\ (r # 0 => DepthOf(t, r) = t[r].depth)
    BY DEF DepthOf
  <2>. HIDE DEF l, r
  <2>6. DepthOf(t, l) \in Nat /\ DepthOf(t, r) \in Nat /\ (l # 0 => DepthOf(t, l) > 0) /\ (r # 0 => DepthOf(t, r) > 0)
    BY <2>1, <2>5
  <2>7. t[n].depth \in Nat \ {0} /\ t[n].depth >= DepthOf(t, l) + 1 /\ t[n].depth >= DepthOf(t, r) + 1
    BY <2>4, <2>6
  <2>8. ASSUME NEW d \in Under(t, n) PROVE Level(t, d) <= Level(t, n) + t[n].depth - 1
    <3>1. CASE d = n
      BY <2>3, <2>7, <3>1
    <3>2. CASE d # n
      <4>1. d \in 1 .. Len(t) /\ n \in Up(t)[d]
        BY DEF Under
      <4>2. PICK c \in {l, r} : c # 0 /\ c \in Up(t)[d]
        BY <3>2, <4>1, UpChild DEF l, r
      <4>3. d \in Under(t, c)
        BY <4>1, <4>2 DEF Under
      <4>4. Level(t, d) <= Level(t, c) + t[c].depth - 1
        BY <2>1, <4>2, <4>3 DEF HeightOK
      <4>5. Level(t, d) \in Nat
        BY <4>1, LevelIs
      <4>6. Level(t, c) = Level(t, n) + 1 /\ t[c].depth \in Nat
        BY <2>1, <4>2
      <4>7. t[n].depth >= t[c].depth + 1
        BY <2>5, <2>7, <4>2
      <4>8. \A ld, ln, dc, dn \in Nat : ld <= (ln + 1) + dc - 1 /\ dn >= dc + 1 => ld <= ln + dn - 1
        OBVIOUS
      <4>9. t[n].depth \in Nat /\ t[c].depth \in Nat
        BY <2>7, <4>6
      <4>10. Level(t, d) <= (Level(t, n) + 1) + t[c].depth - 1
        BY <4>4, <4>6
      <4>. QED BY <2>3, <4>5, <4>7, <4>8, <4>9, <4>10
    <3>. QED BY <3>1, <3>2
  <2>9. \E d \in Under(t, n) : Level(t, d) = Level(t, n) + t[n].depth - 1
    <3>1. CASE l = 0 /\ r = 0
      <4>1. t[n].depth = 1
        BY <2>4, <2>5, <3>1
      <4>. QED BY <2>2, <2>3, <4>1
    <3>2. ASSUME NEW c \in {l, r}, c # 0, t[n].depth = t[c].depth + 1
          PROVE  \E d \in Under(t, n) : Level(t, d) = Level(t, n) + t[n].depth - 1
      <4>1. PICK d \in Under(t, c) : Level(t, d) = Level(t, c) + t[c].depth - 1
        BY <2>1, <3>2 DEF HeightOK
      <4>2. Level(t, c) = Level(t, n) + 1 /\ t[c].depth \in Nat /\ d \in Under(t, n)
        BY <2>1, <3>2, <4>1
      <4>3. Level(t, d) = Level(t, n) + t[n].depth - 1
        <5>2. t[n].depth \in Nat /\ t[c].depth \in Nat
          BY <2>7, <4>2
        <5>3. Level(t, d) = (Level(t, n) + 1) + t[c].depth - 1
          BY <4>1, <4>2
        <5>5. t[n].depth = t[c].depth + 1
          BY <3>2
        <5>6. (Level(t, n) + 1) + t[c].depth - 1 = Level(t, n) + (t[c].depth + 1) - 1
          <6>1. \A ln, dc \in Nat : (ln + 1) + dc - 1 = ln + (dc + 1) - 1
            OBVIOUS
          <6>2. Level(t, n) \in Nat /\ t[c].depth \in Nat
            BY <2>3, <4>2
          <6>. QED BY <6>1, <6>2, Zenon
        <5>. QED BY <5>3, <5>5, <5>6, Zenon
      <4>. QED BY <4>2, <4>3
    <3>3. l # 0 \/ r # 0 => \E c \in {l, r} : c # 0 /\ t[n].depth = t[c].depth + 1
      BY <2>4, <2>5, <2>6
    <3>. QED BY <3>1, <3>2, <3>3
  <2>. QED BY <2>8, <2>9 DEF HeightOK
<1>. HIDE DEF S
<1>2. \A n \in 1 .. m : n \in S
  BY <1>0, <1>1, Downward
<1>. QED BY <1>2 DEF S

\* The cardinality of the instance is that of the module.
LEMMA SameAvlCardinality == \A S : Avl!Cardinality(S) = Cardinality(S)
  BY Zenon DEF Avl!Cardinality, Cardinality, Avl!IsFiniteSet, IsFiniteSet

\* Above of the module is that of the proofs.
LEMMA AboveIs == Avl!Above = Up(tree)
  BY Zenon DEF Avl!Above, Up, AboveEq, Avl!NULL

\* The invariant says what the properties of AvlTree say: types and depths.
LEMMA AvlTyped == ASSUME AvlInv PROVE Avl!TypeOK /\ Avl!DepthIsHeight
<1>. DEFINE m == Len(tree)
<1>1. Linked(tree) /\ m \in Nat /\ tree \in Seq(AvlNode) /\ DOMAIN tree = 1 .. m /\ m <= MaxNodes /\ MaxNodes \in Nat
  BY AvlConstants DEF AvlInv, AvlTypes, Linked
<1>2. ASSUME NEW n \in 1 .. m
      PROVE  /\ tree[n].depth \in Nat \ {0} /\ tree[n].depth \in 1 .. MaxNodes /\ tree[n].element \in Elements
             /\ tree[n].parent \in 0 .. m /\ tree[n].lchild \in 0 .. m /\ tree[n].rchild \in 0 .. m
             /\ tree[n] = [element |-> tree[n].element, depth |-> tree[n].depth, parent |-> tree[n].parent,
                           lchild |-> tree[n].lchild, rchild |-> tree[n].rchild]
  <2>1. tree[n] \in AvlNode
    BY <1>1
  <2>2. tree[n].parent \in 0 .. n - 1 /\ (tree[n].lchild # 0 => tree[n].lchild \in n + 1 .. m)
        /\ (tree[n].rchild # 0 => tree[n].rchild \in n + 1 .. m)
    BY <1>1 DEF Linked
  <2>3. tree[n].depth \in Nat /\ tree[n].element \in Elements
        /\ tree[n] = [element |-> tree[n].element, depth |-> tree[n].depth, parent |-> tree[n].parent,
                      lchild |-> tree[n].lchild, rchild |-> tree[n].rchild]
    BY <2>1 DEF AvlNode
  <2>4. tree[n].depth >= 1 /\ tree[n].depth <= m - n + 1
    BY DEF AvlInv, AvlTypes
  <2>. QED BY <1>1, <2>2, <2>3, <2>4
<1>3. Avl!TypeOK
  <2>. DEFINE Node == [element : Elements, depth : 1 .. MaxNodes, parent : 0 .. m, lchild : 0 .. m, rchild : 0 .. m]
  <2>1. \A n \in 1 .. m : tree[n] \in Node
    <3>. SUFFICES ASSUME NEW n \in 1 .. m PROVE tree[n] \in Node
      OBVIOUS
    <3>. DEFINE rec == [element |-> tree[n].element, depth |-> tree[n].depth, parent |-> tree[n].parent,
                        lchild |-> tree[n].lchild, rchild |-> tree[n].rchild]
    <3>1. rec \in Node
      BY <1>2
    <3>2. tree[n] = rec
      BY <1>2
    <3>. HIDE DEF rec, Node
    <3>. QED BY <3>1, <3>2
  <2>. HIDE DEF Node
  <2>2. tree \in Seq(Node)
    BY <1>1, <2>1
  <2>3. \A n \in 1 .. m, side \in {"lchild", "rchild"} : tree[n][side] # 0 => tree[tree[n][side]].parent = n
    BY <1>1 DEF Linked
  <2>4. \A n \in 1 .. m : tree[n].parent # 0 => n \in {tree[tree[n].parent].lchild, tree[tree[n].parent].rchild}
    BY <1>1 DEF Linked
  <2>5. tr \in 0 .. m /\ np \in 0 .. m /\ pos4 \in 0 .. m /\ pc4 \in {"idle", "insert", "recover"}
    <3>1. tr = (IF m = 0 THEN 0 ELSE 1) /\ np \in 0 .. m /\ pos4 \in 0 .. m /\ pc4 \in {"idle", "insert", "recover"}
      BY DEF AvlInv, AvlTypes
    <3>2. tr \in 0 .. m
      BY <1>1, <3>1
    <3>. QED BY <3>1, <3>2
  <2>. QED BY <1>1, <2>2, <2>3, <2>4, <2>5 DEF Avl!TypeOK, Avl!Nodes, Avl!NULL, Node
<1>4. ASSUME NEW n \in 1 .. m, ~(pc4 = "recover" /\ n \in Up(tree)[np]) PROVE tree[n].depth = Avl!Height(n)
  <2>1. ASSUME NEW d \in Under(tree, n) PROVE LocalDepth(tree, d)
    <3>1. d \in 1 .. m /\ n \in Up(tree)[d]
      BY DEF Under
    <3>2. CASE pc4 = "recover" /\ d \in Up(tree)[np]
      <4>1. np \in 1 .. m
        <5>1. np \in 0 .. m /\ Up(tree)[0] = {}
          BY <1>1, UpIs DEF AvlInv, AvlTypes
        <5>. QED BY <1>1, <3>2, <5>1
      <4>. QED BY <1>1, <1>4, <3>1, <3>2, <4>1, UpFacts
    <3>3. CASE ~(pc4 = "recover" /\ d \in Up(tree)[np])
      BY <3>1, <3>3 DEF AvlInv, DepthInv
    <3>. QED BY <3>2, <3>3
  <2>2. HeightOK(tree, n)
    <3>1. \A x \in 1 .. Len(tree) : tree[x].depth \in Nat \ {0}
      BY <1>2
    <3>. QED BY <1>1, <2>1, <3>1, HeightIs
  <2>. DEFINE Levels == {Level(tree, d) : d \in Under(tree, n)}
              h == Level(tree, n) + tree[n].depth - 1
  <2>3. Level(tree, n) \in Nat /\ \A d \in Under(tree, n) : Level(tree, d) \in Nat
    <3>. SUFFICES ASSUME NEW d \in 1 .. m PROVE Level(tree, d) \in Nat
      BY DEF Under
    <3>. QED BY <1>1, LevelIs
  <2>. DEFINE dn == tree[n].depth
              ln == Level(tree, n)
  <2>31. dn \in Nat /\ ln \in Nat
    BY <1>2, <2>3
  <2>. HIDE DEF dn, ln
  <2>32. h = ln + dn - 1 /\ h \in Int
    <3>1. h = ln + dn - 1
      BY DEF dn, ln
    <3>. HIDE DEF h
    <3>. QED BY <2>31, <3>1
  <2>4. h \in Levels /\ (\A y \in Levels : h >= y) /\ h \in Int /\ (\A y \in Levels : y \in Int)
    BY <2>2, <2>3, <2>32 DEF HeightOK
  <2>5. Avl!Max(Levels) = h
    <3>. HIDE DEF Levels, h
    <3>1. Avl!Max(Levels) \in Levels /\ \A y \in Levels : Avl!Max(Levels) >= y
      BY <2>4, Zenon DEF Avl!Max
    <3>2. Avl!Max(Levels) \in Int /\ h \in Int /\ h >= Avl!Max(Levels) /\ Avl!Max(Levels) >= h
      BY <2>4, <3>1
    <3>. QED BY <3>2
  <2>6. Avl!Height(n) = Avl!Max(Levels) - Level(tree, n) + 1
    <3>1. {Avl!Cardinality(Avl!Above[d]) : d \in {e \in Avl!Nodes : n \in Avl!Above[e]}} = Levels
      BY <1>1, AboveIs, SameAvlCardinality DEF Avl!Nodes, Under, Level
    <3>2. Avl!Cardinality(Avl!Above[n]) = Level(tree, n)
      BY AboveIs, SameAvlCardinality, Zenon DEF Level
    <3>. QED BY <3>1, <3>2, Zenon DEF Avl!Height
  <2>7. tree[n].depth = h - Level(tree, n) + 1
    <3>. HIDE DEF h
    <3>1. dn = h - ln + 1
      BY <2>31, <2>32
    <3>. QED BY <3>1 DEF dn, ln
  <2>. QED BY <2>5, <2>6, <2>7
<1>. QED BY <1>1, <1>3, <1>4, AboveIs DEF Avl!DepthIsHeight, Avl!Nodes

----------------------------------------------------------------------------
\* What is displayed for a node: its left subtree a, itself and its right subtree b.
Joined(kind, a, n, b) == IF kind = "lpr" THEN a \o <<n>> \o b
                         ELSE IF kind = "plr" THEN <<n>> \o a \o b ELSE a \o b \o <<n>>
WalkEq(kind, t, g) ==
    g = [n \in 0 .. Len(t) |-> IF n = 0 THEN <<>> ELSE Joined(kind, g[t[n].lchild], n, g[t[n].rchild])]

\* Each of the three walks exists.
LEMMA WalkExists == ASSUME NEW t, Linked(t), NEW kind PROVE \E g : WalkEq(kind, t, g)
<1>. DEFINE m == Len(t)
            Eq(g, from) == g = [n \in {0} \cup from .. m |-> IF n = 0 THEN <<>> ELSE Joined(kind, g[t[n].lchild], n, g[t[n].rchild])]
            Good == {from \in 1 .. m + 1 : \E g : Eq(g, from)}
<1>0. m \in Nat /\ \A n \in 1 .. m : /\ t[n].lchild # 0 => t[n].lchild \in n + 1 .. m
                                     /\ t[n].rchild # 0 => t[n].rchild \in n + 1 .. m
  BY DEF Linked
<1>. HIDE DEF m
<1>1. m + 1 \in Good
  <2>. DEFINE h == [n \in {0} \cup m + 1 .. m |-> <<>>]
  <2>1. {0} \cup m + 1 .. m = {0}
    BY <1>0
  <2>2. h = [n \in {0} \cup m + 1 .. m |-> IF n = 0 THEN <<>> ELSE Joined(kind, h[t[n].lchild], n, h[t[n].rchild])]
    BY <2>1
  <2>. HIDE DEF h
  <2>3. \E g : Eq(g, m + 1)
    BY <2>2
  <2>. QED BY <1>0, <2>3
<1>2. Good \in SUBSET Nat
  BY <1>0
<1>3. PICK from \in Good : \A y \in Good : from <= y
  BY <1>1, <1>2, LeastNat
<1>4. from \in 1 .. m + 1 /\ \E g : Eq(g, from)
  BY <1>3
<1>5. CASE from = 1
  <2>1. {0} \cup 1 .. m = 0 .. m
    BY <1>0
  <2>2. PICK g : Eq(g, 1)
    BY <1>4, <1>5
  <2>3. g = [n \in 0 .. m |-> IF n = 0 THEN <<>> ELSE Joined(kind, g[t[n].lchild], n, g[t[n].rchild])]
    BY <2>1, <2>2, Zenon
  <2>. QED BY <2>3, Zenon DEF WalkEq, m
<1>6. CASE from # 1
  <2>1. from - 1 \in 1 .. m /\ from \in 1 .. m + 1 /\ from \in Int /\ from # 0
    BY <1>0, <1>4, <1>6
  <2>2. PICK g : Eq(g, from)
    BY <1>4
  <2>3. \A n \in {0} \cup from .. m : g[n] = IF n = 0 THEN <<>> ELSE Joined(kind, g[t[n].lchild], n, g[t[n].rchild])
    BY <2>2
  <2>. DEFINE e == from - 1
              h == [n \in {0} \cup e .. m |-> IF n = e THEN Joined(kind, g[t[e].lchild], e, g[t[e].rchild]) ELSE g[n]]
  <2>4. e \in 1 .. m /\ e # 0 /\ \A n \in e .. m : n = e \/ n \in from .. m
    BY <1>0, <2>1
  <2>5. \A n \in e .. m : /\ t[n].lchild \in {0} \cup from .. m /\ t[n].lchild # e
                          /\ t[n].rchild \in {0} \cup from .. m /\ t[n].rchild # e
    <3>. SUFFICES ASSUME NEW n \in e .. m
                  PROVE  /\ t[n].lchild \in {0} \cup from .. m /\ t[n].lchild # e
                         /\ t[n].rchild \in {0} \cup from .. m /\ t[n].rchild # e
      OBVIOUS
    <3>1. n \in 1 .. m /\ n >= from - 1
      BY <1>0, <2>1
    <3>2. t[n].lchild # 0 => t[n].lchild \in n + 1 .. m
      BY <1>0, <3>1
    <3>3. t[n].rchild # 0 => t[n].rchild \in n + 1 .. m
      BY <1>0, <3>1
    <3>. QED BY <1>0, <2>1, <3>1, <3>2, <3>3
  <2>. HIDE DEF e
  <2>6. \A x \in {0} \cup from .. m : x # e => x \in {0} \cup e .. m /\ h[x] = g[x]
    <3>1. from .. m \subseteq e .. m
      BY <1>0, <2>1 DEF e
    <3>. QED BY <3>1
  <2>7. ASSUME NEW n \in {0} \cup e .. m
        PROVE  h[n] = IF n = 0 THEN <<>> ELSE Joined(kind, h[t[n].lchild], n, h[t[n].rchild])
    <3>1. CASE n = 0
      <4>1. h[0] = g[0] /\ g[0] = <<>>
        BY <2>3, <2>4
      <4>. QED BY <3>1, <4>1
    <3>2. CASE n # 0
      <4>1. n \in e .. m
        BY <3>2
      <4>2. h[t[n].lchild] = g[t[n].lchild] /\ h[t[n].rchild] = g[t[n].rchild]
        BY <2>5, <2>6, <4>1
      <4>3. h[n] = Joined(kind, g[t[n].lchild], n, g[t[n].rchild])
        BY <2>3, <2>4, <3>2, <4>1
      <4>. QED BY <3>2, <4>2, <4>3
    <3>. QED BY <3>1, <3>2
  <2>8. h = [n \in {0} \cup e .. m |-> IF n = 0 THEN <<>> ELSE Joined(kind, h[t[n].lchild], n, h[t[n].rchild])]
    <3>. DEFINE h2 == [n \in {0} \cup e .. m |-> IF n = 0 THEN <<>> ELSE Joined(kind, h[t[n].lchild], n, h[t[n].rchild])]
    <3>1. \A n \in {0} \cup e .. m : h[n] = h2[n]
      BY <2>7
    <3>. QED BY <3>1
  <2>. HIDE DEF h
  <2>9. \E f : Eq(f, e)
    BY <2>8
  <2>10. e \in Good /\ e < from
    <3>1. e \in 1 .. m + 1 /\ e < from
      BY <1>0, <2>1, <2>4 DEF e
    <3>. QED BY <2>9, <3>1
  <2>. HIDE DEF Good
  <2>. QED BY <1>3, <2>1, <2>4, <2>10
<1>. QED BY <1>5, <1>6

Items(s) == {s[x] : x \in 1 .. Len(s)}
Ordered(s, R) == \A x, y \in 1 .. Len(s) : x < y => <<s[x], s[y]>> \in R
\* A sequence of the elements of I, ordered by R.
Ranked(s, X, I, R) == s \in Seq(X) /\ Items(s) = I /\ Ordered(s, R)

\* Two such sequences, of which the first has what comes before what the second has.
LEMMA RankedConcat ==
  ASSUME NEW X, NEW R, NEW I, NEW J, NEW s, NEW u, Ranked(s, X, I, R), Ranked(u, X, J, R), \A a \in I, b \in J : <<a, b>> \in R
  PROVE  Ranked(s \o u, X, I \cup J, R)
<1>. DEFINE v == s \o u
<1>1. s \in Seq(X) /\ u \in Seq(X) /\ Len(s) \in Nat /\ Len(u) \in Nat
  BY DEF Ranked
<1>2. v \in Seq(X) /\ Len(v) = Len(s) + Len(u)
      /\ \A x \in 1 .. Len(s) + Len(u) : v[x] = IF x <= Len(s) THEN s[x] ELSE u[x - Len(s)]
  BY <1>1, ConcatProperties
<1>. HIDE DEF v
<1>3. \A x \in 1 .. Len(s) : x \in 1 .. Len(v) /\ v[x] = s[x] /\ s[x] \in I
  BY <1>1, <1>2 DEF Ranked, Items
<1>4. \A x \in 1 .. Len(u) : x + Len(s) \in 1 .. Len(v) /\ v[x + Len(s)] = u[x] /\ u[x] \in J
  <2>. SUFFICES ASSUME NEW x \in 1 .. Len(u)
                PROVE  x + Len(s) \in 1 .. Len(v) /\ v[x + Len(s)] = u[x] /\ u[x] \in J
    OBVIOUS
  <2>1. x + Len(s) \in 1 .. Len(s) + Len(u) /\ ~(x + Len(s) <= Len(s)) /\ (x + Len(s)) - Len(s) = x
    BY <1>1
  <2>. QED BY <1>2, <2>1 DEF Ranked, Items
<1>5. \A x \in 1 .. Len(v) : \/ x \in 1 .. Len(s) /\ v[x] = s[x] /\ s[x] \in I
                             \/ x - Len(s) \in 1 .. Len(u) /\ v[x] = u[x - Len(s)] /\ u[x - Len(s)] \in J /\ x > Len(s)
  <2>. SUFFICES ASSUME NEW x \in 1 .. Len(v)
                PROVE  \/ x \in 1 .. Len(s) /\ v[x] = s[x] /\ s[x] \in I
                       \/ x - Len(s) \in 1 .. Len(u) /\ v[x] = u[x - Len(s)] /\ u[x - Len(s)] \in J /\ x > Len(s)
    OBVIOUS
  <2>1. CASE x <= Len(s)
    <3>1. x \in 1 .. Len(s)
      BY <1>1, <2>1
    <3>. QED BY <1>3, <3>1
  <2>2. CASE ~(x <= Len(s))
    <3>1. x \in 1 .. Len(s) + Len(u) /\ x - Len(s) \in 1 .. Len(u) /\ x > Len(s)
      BY <1>1, <1>2, <2>2
    <3>2. u[x - Len(s)] \in J
      BY <3>1 DEF Ranked, Items
    <3>. QED BY <1>2, <2>2, <3>1, <3>2
  <2>. QED BY <2>1, <2>2
<1>6. Items(v) = I \cup J
  <2>1. Items(v) \subseteq I \cup J
    BY <1>5 DEF Items
  <2>2. I \subseteq Items(v)
    BY <1>3 DEF Items, Ranked
  <2>3. J \subseteq Items(v)
    <3>. SUFFICES ASSUME NEW x \in 1 .. Len(u) PROVE u[x] \in Items(v)
      BY DEF Ranked, Items
    <3>. QED BY <1>4 DEF Items
  <2>. QED BY <2>1, <2>2, <2>3
<1>7. Ordered(v, R)
  <2>. SUFFICES ASSUME NEW x \in 1 .. Len(v), NEW y \in 1 .. Len(v), x < y PROVE <<v[x], v[y]>> \in R
    BY DEF Ordered
  <2>1. CASE x \in 1 .. Len(s) /\ y \in 1 .. Len(s)
    <3>1. <<s[x], s[y]>> \in R
      BY <2>1 DEF Ranked, Ordered
    <3>. QED BY <1>3, <2>1, <3>1
  <2>2. CASE x \in 1 .. Len(s) /\ y \notin 1 .. Len(s)
    BY <1>3, <1>5, <2>2
  <2>3. CASE x \notin 1 .. Len(s) /\ y \in 1 .. Len(s)
    BY <1>1, <2>3
  <2>4. CASE x \notin 1 .. Len(s) /\ y \notin 1 .. Len(s)
    <3>1. /\ x - Len(s) \in 1 .. Len(u) /\ v[x] = u[x - Len(s)]
          /\ y - Len(s) \in 1 .. Len(u) /\ v[y] = u[y - Len(s)]
      BY <1>5, <2>4
    <3>2. x - Len(s) < y - Len(s)
      BY <1>1, <1>2
    <3>3. <<u[x - Len(s)], u[y - Len(s)]>> \in R
      BY <3>1, <3>2 DEF Ranked, Ordered
    <3>. QED BY <3>1, <3>3
  <2>. QED BY <2>1, <2>2, <2>3, <2>4
<1>. QED BY <1>2, <1>6, <1>7 DEF Ranked, v

\* What comes before what in the walk that does the node where kind says.
Related(kind, t, R) == \A n \in 1 .. Len(t) :
    /\ t[n].lchild # 0 => \A a \in Under(t, t[n].lchild) : IF kind = "plr" THEN <<n, a>> \in R ELSE <<a, n>> \in R
    /\ t[n].rchild # 0 => \A b \in Under(t, t[n].rchild) : IF kind = "lrp" THEN <<b, n>> \in R ELSE <<n, b>> \in R
    /\ t[n].lchild # 0 /\ t[n].rchild # 0 =>
           \A a \in Under(t, t[n].lchild), b \in Under(t, t[n].rchild) : <<a, b>> \in R

\* A walk displays what is under a node, and each in its place.
LEMMA WalkIsRanked ==
  ASSUME NEW t, Linked(t), NEW kind \in {"lpr", "plr", "lrp"}, NEW g, WalkEq(kind, t, g), NEW R, Related(kind, t, R)
  PROVE  g[0] = <<>> /\ \A n \in 1 .. Len(t) : Ranked(g[n], 1 .. Len(t), Under(t, n), R)
<1>. DEFINE m == Len(t)
            X == 1 .. m
            All(c) == IF c = 0 THEN {} ELSE Under(t, c)
            S == {n \in 1 .. m : Ranked(g[n], X, Under(t, n), R)}
<1>0. m \in Nat /\ \A n \in 1 .. m : /\ t[n].lchild # 0 => t[n].lchild \in n + 1 .. m
                                     /\ t[n].rchild # 0 => t[n].rchild \in n + 1 .. m
  BY DEF Linked
<1>1. g[0] = <<>> /\ \A n \in 1 .. m : g[n] = Joined(kind, g[t[n].lchild], n, g[t[n].rchild])
  <2>1. g = [n \in 0 .. m |-> IF n = 0 THEN <<>> ELSE Joined(kind, g[t[n].lchild], n, g[t[n].rchild])]
    BY Zenon DEF WalkEq
  <2>2. \A n \in 0 .. m : g[n] = IF n = 0 THEN <<>> ELSE Joined(kind, g[t[n].lchild], n, g[t[n].rchild])
    BY <2>1
  <2>3. 0 \in 0 .. m /\ \A n \in 1 .. m : n \in 0 .. m /\ n # 0
    BY <1>0
  <2>. QED BY <2>2, <2>3
<1>2. ASSUME NEW n \in 1 .. m, \A x \in n + 1 .. m : x \in S PROVE n \in S
  <2>. DEFINE l == t[n].lchild
              r == t[n].rchild
  <2>0. g[n] = Joined(kind, g[l], n, g[r])
    BY <1>1
  <2>1. ASSUME NEW c \in {l, r} PROVE Ranked(g[c], X, All(c), R)
    <3>1. CASE c = 0
      <4>1. g[c] = <<>> /\ All(c) = {}
        BY <1>1, <3>1
      <4>2. <<>> \in Seq(X) /\ Items(<<>>) = {} /\ Ordered(<<>>, R)
        BY DEF Items, Ordered
      <4>. QED BY <4>1, <4>2, Zenon DEF Ranked
    <3>2. CASE c # 0
      <4>1. c \in S
        BY <1>0, <1>2, <3>2
      <4>. QED BY <3>2, <4>1
    <3>. QED BY <3>1, <3>2
  <2>2. Ranked(<<n>>, X, {n}, R)
    BY DEF Ranked, Items, Ordered
  <2>3. Under(t, n) = (All(l) \cup {n}) \cup All(r)
    <3>1. n \in Under(t, n)
      BY UpFacts DEF Under
    <3>2. \A c \in {l, r} : c # 0 => Under(t, c) \subseteq Under(t, n)
      BY ChildLevel
    <3>3. \A d \in Under(t, n) : d = n \/ (l # 0 /\ d \in Under(t, l)) \/ (r # 0 /\ d \in Under(t, r))
      BY UpChild DEF Under
    <3>. QED BY <3>1, <3>2, <3>3
  <2>4. /\ \A a \in All(l) : IF kind = "plr" THEN <<n, a>> \in R ELSE <<a, n>> \in R
        /\ \A b \in All(r) : IF kind = "lrp" THEN <<b, n>> \in R ELSE <<n, b>> \in R
        /\ \A a \in All(l), b \in All(r) : <<a, b>> \in R
    BY DEF Related
  <2>. HIDE DEF All, X
  <2>5. CASE kind = "lpr"
    <3>1. Ranked(g[l] \o <<n>>, X, All(l) \cup {n}, R)
      BY <2>1, <2>2, <2>4, <2>5, RankedConcat
    <3>2. Ranked((g[l] \o <<n>>) \o g[r], X, (All(l) \cup {n}) \cup All(r), R)
      BY <2>1, <2>4, <2>5, <3>1, RankedConcat
    <3>3. g[n] = (g[l] \o <<n>>) \o g[r]
      BY <2>0, <2>5 DEF Joined
    <3>. QED BY <2>3, <3>2, <3>3
  <2>6. CASE kind = "plr"
    <3>1. Ranked(<<n>> \o g[l], X, {n} \cup All(l), R)
      BY <2>1, <2>2, <2>4, <2>6, RankedConcat
    <3>2. Ranked((<<n>> \o g[l]) \o g[r], X, ({n} \cup All(l)) \cup All(r), R)
      BY <2>1, <2>4, <2>6, <3>1, RankedConcat
    <3>3. g[n] = (<<n>> \o g[l]) \o g[r]
      BY <2>0, <2>6 DEF Joined
    <3>4. ({n} \cup All(l)) \cup All(r) = (All(l) \cup {n}) \cup All(r)
      OBVIOUS
    <3>. QED BY <2>3, <3>2, <3>3, <3>4
  <2>7. CASE kind = "lrp"
    <3>1. Ranked(g[l] \o g[r], X, All(l) \cup All(r), R)
      BY <2>1, <2>4, RankedConcat
    <3>2. Ranked((g[l] \o g[r]) \o <<n>>, X, (All(l) \cup All(r)) \cup {n}, R)
      BY <2>2, <2>4, <2>7, <3>1, RankedConcat
    <3>3. g[n] = (g[l] \o g[r]) \o <<n>>
      BY <2>0, <2>7 DEF Joined
    <3>4. (All(l) \cup All(r)) \cup {n} = (All(l) \cup {n}) \cup All(r)
      OBVIOUS
    <3>. QED BY <2>3, <3>2, <3>3, <3>4
  <2>. QED BY <2>5, <2>6, <2>7
<1>. HIDE DEF S
<1>3. \A n \in 1 .. m : n \in S
  BY <1>0, <1>2, Downward
<1>. QED BY <1>1, <1>3 DEF S, X, m

\* What comes before what in the three displays.
Precedes(kind, t, a, b) ==
    /\ a # b
    /\ IF kind = "lpr" THEN Before(t, a, b)
       ELSE IF kind = "plr" THEN a \in Up(t)[b] \/ (b \notin Up(t)[a] /\ Before(t, a, b))
       ELSE b \in Up(t)[a] \/ (a \notin Up(t)[b] /\ Before(t, a, b))
Relation(kind, t) == {e \in (1 .. Len(t)) \X (1 .. Len(t)) : Precedes(kind, t, e[1], e[2])}

\* The order by element is one.
LEMMA BeforeOrders ==
  ASSUME NEW t, Linked(t)
  PROVE  \A a, b, c \in 1 .. Len(t) : /\ Before(t, a, b) /\ Before(t, b, c) => Before(t, a, c)
                                      /\ ~(Before(t, a, b) /\ Before(t, b, a)) /\ ~Before(t, a, a)
<1>1. \A a \in 1 .. Len(t) : t[a] \in AvlNode
  BY DEF Linked
<1>2. \A a \in 1 .. Len(t) : t[a].element \in Nat
  BY <1>1, AvlConstants DEF AvlNode
<1>. QED BY <1>2 DEF Before

\* A searchable tree is walked in that order.
LEMMA RelatedIs ==
  ASSUME NEW t, Linked(t), Searchable(t), NEW kind \in {"lpr", "plr", "lrp"}
  PROVE  Related(kind, t, Relation(kind, t))
<1>. SUFFICES ASSUME NEW n \in 1 .. Len(t)
     PROVE  /\ t[n].lchild # 0 => \A a \in Under(t, t[n].lchild) :
                  IF kind = "plr" THEN Precedes(kind, t, n, a) ELSE Precedes(kind, t, a, n)
            /\ t[n].rchild # 0 => \A b \in Under(t, t[n].rchild) :
                  IF kind = "lrp" THEN Precedes(kind, t, b, n) ELSE Precedes(kind, t, n, b)
            /\ t[n].lchild # 0 /\ t[n].rchild # 0 =>
                  \A a \in Under(t, t[n].lchild), b \in Under(t, t[n].rchild) : Precedes(kind, t, a, b)
  BY DEF Related, Relation, Under
<1>. DEFINE l == t[n].lchild
            r == t[n].rchild
<1>1. ASSUME NEW c \in {l, r}, c # 0, NEW d \in Under(t, c)
      PROVE  d \in 1 .. Len(t) /\ d # n /\ n \in Up(t)[d] /\ c \in Up(t)[d] /\ d \notin Up(t)[n]
  <2>1. d \in 1 .. Len(t) /\ c \in Up(t)[d]
    BY DEF Under
  <2>2. d \in Under(t, n) /\ n \notin Under(t, c) /\ c \in 1 .. Len(t) /\ c \notin Up(t)[n]
    BY <1>1, ChildLevel
  <2>3. d # n /\ n \in Up(t)[d]
    BY <1>1, <2>2 DEF Under
  <2>4. d \notin Up(t)[n]
    <3>1. d \in Up(t)[n] => Up(t)[d] \subseteq Up(t)[n]
      BY UpFacts
    <3>. QED BY <2>1, <2>2, <3>1
  <2>. QED BY <2>1, <2>3, <2>4
<1>2. ASSUME l # 0, NEW a \in Under(t, l)
      PROVE  Before(t, a, n) /\ IF kind = "plr" THEN Precedes(kind, t, n, a) ELSE Precedes(kind, t, a, n)
  <2>1. a \in 1 .. Len(t) /\ a # n /\ n \in Up(t)[a] /\ l \in Up(t)[a] /\ a \notin Up(t)[n]
    BY <1>1, <1>2
  <2>2. Before(t, a, n)
    BY <1>2, <2>1 DEF Searchable
  <2>. QED BY <2>1, <2>2 DEF Precedes
<1>3. ASSUME r # 0, NEW b \in Under(t, r)
      PROVE  Before(t, n, b) /\ IF kind = "lrp" THEN Precedes(kind, t, b, n) ELSE Precedes(kind, t, n, b)
  <2>1. b \in 1 .. Len(t) /\ b # n /\ n \in Up(t)[b] /\ r \in Up(t)[b] /\ b \notin Up(t)[n]
    BY <1>1, <1>3
  <2>2. Before(t, n, b)
    BY <1>3, <2>1 DEF Searchable
  <2>. QED BY <2>1, <2>2 DEF Precedes
<1>4. ASSUME l # 0, r # 0, NEW a \in Under(t, l), NEW b \in Under(t, r) PROVE Precedes(kind, t, a, b)
  <2>1. a \in 1 .. Len(t) /\ b \in 1 .. Len(t) /\ l \in Up(t)[a] /\ r \in Up(t)[b]
    BY <1>1, <1>4
  <2>2. Before(t, a, n) /\ Before(t, n, b)
    BY <1>2, <1>3, <1>4
  <2>3. Before(t, a, b)
    BY <2>1, <2>2, BeforeOrders
  <2>4. a # b
    BY <2>1, <2>3, BeforeOrders
  <2>5. a \notin Up(t)[b]
    <3>1. a \in Up(t)[b] => l \in Up(t)[b]
      BY <2>1, UpFacts
    <3>. QED BY <1>4, <2>1, <3>1, UpApart
  <2>6. b \notin Up(t)[a]
    <3>1. b \in Up(t)[a] => r \in Up(t)[a]
      BY <2>1, UpFacts
    <3>. QED BY <1>4, <2>1, <3>1, UpApart
  <2>. QED BY <2>3, <2>4, <2>5, <2>6 DEF Precedes
<1>. QED BY <1>2, <1>3, <1>4

\* Two nodes do not precede each other.
LEMMA PrecedesOneWay ==
  ASSUME NEW t, Linked(t), NEW kind \in {"lpr", "plr", "lrp"}, NEW a \in 1 .. Len(t), NEW b \in 1 .. Len(t)
  PROVE  /\ ~(Precedes(kind, t, a, b) /\ Precedes(kind, t, b, a))
         /\ a # b => ~(a \in Up(t)[b] /\ b \in Up(t)[a])
<1>1. Up(t)[a] \subseteq 1 .. a /\ Up(t)[b] \subseteq 1 .. b
  BY UpFacts
<1>2. a # b => ~(a \in Up(t)[b] /\ b \in Up(t)[a])
  BY <1>1
<1>3. ~(Before(t, a, b) /\ Before(t, b, a))
  BY BeforeOrders
<1>. QED BY <1>2, <1>3 DEF Precedes

\* Unless a node is on its way to its place, all are under the root.
LEMMA AllUnderRoot ==
  ASSUME AvlInv, pc4 # "insert"
  PROVE  /\ tr = 0 => Len(tree) = 0
         /\ tr # 0 => tr \in 1 .. Len(tree) /\ Under(tree, tr) = 1 .. Len(tree)
<1>. DEFINE m == Len(tree)
            S == {n \in 1 .. m : 1 \in Up(tree)[n]}
<1>1. Linked(tree) /\ m \in Nat /\ tr = (IF m = 0 THEN 0 ELSE 1) /\ \A n \in 2 .. m : tree[n].parent # 0
  BY DEF AvlInv, AvlTypes, Linked
<1>2. ASSUME NEW n \in 1 .. m, \A x \in 1 .. n - 1 : x \in S PROVE n \in S
  <2>1. Up(tree)[n] = {n} \cup Up(tree)[tree[n].parent] /\ n \in Up(tree)[n]
    BY <1>1, UpIs
  <2>2. tree[n].parent \in 0 .. n - 1
    BY <1>1 DEF Linked
  <2>3. CASE n = 1
    BY <2>1, <2>3
  <2>4. CASE n # 1
    <3>1. n \in 2 .. m
      BY <2>4
    <3>2. tree[n].parent \in 1 .. n - 1
      BY <1>1, <2>2, <3>1
    <3>. QED BY <1>2, <2>1, <3>2
  <2>. QED BY <2>3, <2>4
<1>. HIDE DEF S
<1>3. \A n \in 1 .. m : n \in S
  BY <1>1, <1>2, Upward
<1>. QED BY <1>1, <1>3 DEF S, Under

\* Each display has every node once, in its order.
Shows(kind, s) == Ranked(s, 1 .. Len(tree), 1 .. Len(tree), Relation(kind, tree))

\* A walk from the root displays every node, each in its place.
LEMMA DisplayShows ==
  ASSUME AvlInv, pc4 # "insert", NEW kind \in {"lpr", "plr", "lrp"}, NEW g, WalkEq(kind, tree, g)
  PROVE  Shows(kind, g[tr])
<1>1. Linked(tree) /\ Searchable(tree) /\ Len(tree) \in Nat
  BY DEF AvlInv, AvlTypes, Linked
<1>2. Related(kind, tree, Relation(kind, tree))
  BY <1>1, RelatedIs
<1>3. g[0] = <<>> /\ \A n \in 1 .. Len(tree) : Ranked(g[n], 1 .. Len(tree), Under(tree, n), Relation(kind, tree))
  BY <1>1, <1>2, WalkIsRanked
<1>4. CASE tr = 0
  <2>1. 1 .. Len(tree) = {} /\ g[tr] = <<>>
    BY <1>3, <1>4, AllUnderRoot
  <2>2. <<>> \in Seq({}) /\ Items(<<>>) = {} /\ Ordered(<<>>, Relation(kind, tree))
    BY DEF Items, Ordered
  <2>. QED BY <2>1, <2>2 DEF Shows, Ranked
<1>5. CASE tr # 0
  BY <1>3, <1>5, AllUnderRoot DEF Shows
<1>. QED BY <1>4, <1>5

\* So does lpr_sort,
LEMMA LprShows == ASSUME AvlInv, pc4 # "insert" PROVE Shows("lpr", Avl!lpr_sort)
<1>. DEFINE LprEq(g) == g = [n \in 0 .. Len(tree) |-> IF n = 0 THEN <<>> ELSE g[tree[n].lchild] \o <<n>> \o g[tree[n].rchild]]
            w == CHOOSE g : LprEq(g)
<1>1. \A g : WalkEq("lpr", tree, g) <=> LprEq(g)
  BY DEF WalkEq, Joined
<1>2. \E g : WalkEq("lpr", tree, g)
  BY WalkExists DEF AvlInv, AvlTypes
<1>3. LprEq(w)
  BY <1>1, <1>2, Zenon
<1>4. Avl!lpr_sort = w[tr]
  BY Zenon DEF Avl!lpr_sort, Avl!NULL
<1>. HIDE DEF w, LprEq
<1>5. WalkEq("lpr", tree, w)
  BY <1>1, <1>3, Zenon
<1>. QED BY <1>4, <1>5, DisplayShows

\* plr_sort
LEMMA PlrShows == ASSUME AvlInv, pc4 # "insert" PROVE Shows("plr", Avl!plr_sort)
<1>. DEFINE PlrEq(g) == g = [n \in 0 .. Len(tree) |-> IF n = 0 THEN <<>> ELSE <<n>> \o g[tree[n].lchild] \o g[tree[n].rchild]]
            w == CHOOSE g : PlrEq(g)
<1>1. \A g : WalkEq("plr", tree, g) <=> PlrEq(g)
  BY DEF WalkEq, Joined
<1>2. \E g : WalkEq("plr", tree, g)
  BY WalkExists DEF AvlInv, AvlTypes
<1>3. PlrEq(w)
  BY <1>1, <1>2, Zenon
<1>4. Avl!plr_sort = w[tr]
  BY Zenon DEF Avl!plr_sort, Avl!NULL
<1>. HIDE DEF w, PlrEq
<1>5. WalkEq("plr", tree, w)
  BY <1>1, <1>3, Zenon
<1>. QED BY <1>4, <1>5, DisplayShows

\* and lrp_sort.
LEMMA LrpShows == ASSUME AvlInv, pc4 # "insert" PROVE Shows("lrp", Avl!lrp_sort)
<1>. DEFINE LrpEq(g) == g = [n \in 0 .. Len(tree) |-> IF n = 0 THEN <<>> ELSE g[tree[n].lchild] \o g[tree[n].rchild] \o <<n>>]
            w == CHOOSE g : LrpEq(g)
<1>1. \A g : WalkEq("lrp", tree, g) <=> LrpEq(g)
  BY DEF WalkEq, Joined
<1>2. \E g : WalkEq("lrp", tree, g)
  BY WalkExists DEF AvlInv, AvlTypes
<1>3. LrpEq(w)
  BY <1>1, <1>2, Zenon
<1>4. Avl!lrp_sort = w[tr]
  BY Zenon DEF Avl!lrp_sort, Avl!NULL
<1>. HIDE DEF w, LrpEq
<1>5. WalkEq("lrp", tree, w)
  BY <1>1, <1>3, Zenon
<1>. QED BY <1>4, <1>5, DisplayShows

\* Where n is displayed.
Place(s, n) == CHOOSE x \in DOMAIN s : s[x] = n

\* The places of two nodes are in the order of the display.
LEMMA PlacesAgree ==
  ASSUME Linked(tree), NEW kind \in {"lpr", "plr", "lrp"}, NEW s, Shows(kind, s),
         NEW a \in 1 .. Len(tree), NEW b \in 1 .. Len(tree), a # b
  PROVE  /\ Place(s, a) \in Int /\ Place(s, b) \in Int /\ Place(s, a) # Place(s, b)
         /\ Place(s, a) < Place(s, b) <=> Precedes(kind, tree, a, b)
<1>1. s \in Seq(1 .. Len(tree)) /\ Items(s) = 1 .. Len(tree) /\ Ordered(s, Relation(kind, tree)) /\ DOMAIN s = 1 .. Len(s) /\ Len(s) \in Nat
  BY DEF Shows, Ranked
<1>2. /\ Place(s, a) \in 1 .. Len(s) /\ s[Place(s, a)] = a
      /\ Place(s, b) \in 1 .. Len(s) /\ s[Place(s, b)] = b
  <2>1. (\E x \in 1 .. Len(s) : s[x] = a) /\ (\E x \in 1 .. Len(s) : s[x] = b)
    BY <1>1 DEF Items
  <2>. QED BY <1>1, <2>1, Zenon DEF Place
<1>3. Place(s, a) < Place(s, b) => Precedes(kind, tree, a, b)
  BY <1>1, <1>2 DEF Ordered, Relation
<1>4. Place(s, b) < Place(s, a) => Precedes(kind, tree, b, a)
  BY <1>1, <1>2 DEF Ordered, Relation
<1>5. ~(Precedes(kind, tree, a, b) /\ Precedes(kind, tree, b, a))
  BY PrecedesOneWay
<1>6. Place(s, a) # Place(s, b)
  BY <1>2
<1>. QED BY <1>1, <1>2, <1>3, <1>4, <1>5, <1>6

\* A sequence that has every node once is as long as the tree.
LEMMA ShowsAll == ASSUME Linked(tree), NEW s, Shows("lpr", s) PROVE Len(s) = Len(tree)
<1>1. s \in Seq(1 .. Len(tree)) /\ Items(s) = 1 .. Len(tree) /\ Ordered(s, Relation("lpr", tree)) /\ Len(s) \in Nat /\ Len(tree) \in Nat
  BY DEF Shows, Ranked, Linked
<1>2. \A x, y \in 1 .. Len(s) : s[x] = s[y] => x = y
  <2>1. \A x, y \in 1 .. Len(s) : x < y => s[x] # s[y]
    BY <1>1 DEF Ordered, Relation, Precedes
  <2>. QED BY <1>1, <2>1
<1>3. DOMAIN s = 1 .. Len(s) /\ s \in [1 .. Len(s) -> 1 .. Len(tree)]
  BY <1>1
<1>4. s \in Bijection(1 .. Len(s), 1 .. Len(tree))
  BY <1>1, <1>2, <1>3 DEF Bijection, Injection, Surjection, IsInjective, Items
<1>5. IsFiniteSet(1 .. Len(s)) /\ Cardinality(1 .. Len(s)) = Len(s) /\ Cardinality(1 .. Len(tree)) = Len(tree)
  <2>1. Cardinality(1 .. Len(s)) = IF 1 > Len(s) THEN 0 ELSE Len(s) - 1 + 1
    <3>1. 1 \in Int /\ Len(s) \in Int
      BY <1>1
    <3>. QED BY <3>1, FS_Interval, Zenon
  <2>2. Cardinality(1 .. Len(tree)) = IF 1 > Len(tree) THEN 0 ELSE Len(tree) - 1 + 1
    <3>1. 1 \in Int /\ Len(tree) \in Int
      BY <1>1
    <3>. QED BY <3>1, FS_Interval, Zenon
  <2>3. IsFiniteSet(1 .. Len(s))
    BY <1>1, FS_Interval
  <2>. QED BY <1>1, <2>1, <2>2, <2>3
<1>6. ExistsBijection(1 .. Len(s), 1 .. Len(tree))
  BY <1>4, Zenon DEF ExistsBijection
<1>7. Cardinality(1 .. Len(tree)) = Cardinality(1 .. Len(s))
  BY <1>5, <1>6, FS_Bijection, Zenon
<1>. QED BY <1>5, <1>7

\* The invariant says what the properties of AvlTree say: the displays.
LEMMA AvlDisplays == ASSUME AvlInv PROVE Avl!SortedInOrder /\ Avl!DisplaysAgree
<1>1. Linked(tree) /\ DOMAIN tree = 1 .. Len(tree)
  <2>1. Linked(tree)
    BY DEF AvlInv, AvlTypes
  <2>2. tree \in Seq(AvlNode)
    BY <2>1 DEF Linked
  <2>. QED BY <2>1, <2>2
<1>2. Avl!SortedInOrder
  <2>. SUFFICES ASSUME pc4 # "insert"
                PROVE  /\ Len(Avl!lpr_sort) = Len(tree)
                       /\ \A x, y \in DOMAIN Avl!lpr_sort : x < y => Before(tree, Avl!lpr_sort[x], Avl!lpr_sort[y])
    BY Zenon DEF Avl!SortedInOrder, Before
  <2>. DEFINE shown == Avl!lpr_sort
  <2>1. Shows("lpr", shown)
    BY LprShows
  <2>. HIDE DEF shown
  <2>2. Len(shown) = Len(tree)
    BY <1>1, <2>1, ShowsAll
  <2>3. DOMAIN shown = 1 .. Len(shown)
    BY <2>1 DEF Shows, Ranked
  <2>4. \A x, y \in DOMAIN shown : x < y => Before(tree, shown[x], shown[y])
    BY <2>1, <2>3 DEF Shows, Ranked, Ordered, Relation, Precedes
  <2>. QED BY <2>2, <2>4 DEF shown
<1>3. Avl!DisplaysAgree
  <2>. SUFFICES ASSUME pc4 = "idle" PROVE Avl!DisplaysAgree
    BY DEF Avl!DisplaysAgree
  <2>. DEFINE plr == Avl!plr_sort
              lpr == Avl!lpr_sort
              lrp == Avl!lrp_sort
  <2>1. Shows("plr", plr) /\ Shows("lpr", lpr) /\ Shows("lrp", lrp)
    BY LprShows, PlrShows, LrpShows
  <2>. HIDE DEF plr, lpr, lrp
  <2>2. ASSUME NEW m \in 1 .. Len(tree), NEW n \in 1 .. Len(tree), m # n
        PROVE  \/ m \in Up(tree)[n] /\ Place(plr, m) < Place(plr, n) /\ Place(lrp, n) < Place(lrp, m)
               \/ n \in Up(tree)[m] /\ Place(plr, n) < Place(plr, m) /\ Place(lrp, m) < Place(lrp, n)
               \/ /\ m \notin Up(tree)[n] /\ n \notin Up(tree)[m]
                  /\ (Place(plr, m) < Place(plr, n)) = (Place(lpr, m) < Place(lpr, n))
                  /\ (Place(lrp, m) < Place(lrp, n)) = (Place(lpr, m) < Place(lpr, n))
    <3>1. /\ Place(plr, m) < Place(plr, n) <=> Precedes("plr", tree, m, n)
          /\ Place(plr, n) < Place(plr, m) <=> Precedes("plr", tree, n, m)
      BY <1>1, <2>1, <2>2, PlacesAgree
    <3>11. Place(lpr, m) < Place(lpr, n) <=> Precedes("lpr", tree, m, n)
      BY <1>1, <2>1, <2>2, PlacesAgree
    <3>12. /\ Place(lrp, m) < Place(lrp, n) <=> Precedes("lrp", tree, m, n)
           /\ Place(lrp, n) < Place(lrp, m) <=> Precedes("lrp", tree, n, m)
      BY <1>1, <2>1, <2>2, PlacesAgree
    <3>2. ~(m \in Up(tree)[n] /\ n \in Up(tree)[m])
      BY <1>1, <2>2, PrecedesOneWay
    <3>. QED BY <2>2, <3>1, <3>11, <3>12, <3>2 DEF Precedes
  <2>. DEFINE In(s) == [n \in Avl!Nodes |-> CHOOSE x \in DOMAIN s : s[x] = n]
  <2>3. \A n \in Avl!Nodes : In(plr)[n] = Place(plr, n) /\ In(lpr)[n] = Place(lpr, n) /\ In(lrp)[n] = Place(lrp, n)
    BY Zenon DEF Place
  <2>. HIDE DEF In
  <2>4. \A m, n \in Avl!Nodes :
           \/ m = n
           \/ m \in Avl!Above[n] /\ In(plr)[m] < In(plr)[n] /\ In(lrp)[n] < In(lrp)[m]
           \/ n \in Avl!Above[m] /\ In(plr)[n] < In(plr)[m] /\ In(lrp)[m] < In(lrp)[n]
           \/ /\ m \notin Avl!Above[n] /\ n \notin Avl!Above[m]
              /\ (In(plr)[m] < In(plr)[n]) = (In(lpr)[m] < In(lpr)[n])
              /\ (In(lrp)[m] < In(lrp)[n]) = (In(lpr)[m] < In(lpr)[n])
    <3>1. Avl!Nodes = 1 .. Len(tree)
      BY <1>1 DEF Avl!Nodes
    <3>. SUFFICES ASSUME NEW m \in Avl!Nodes, NEW n \in Avl!Nodes, m # n
                  PROVE  \/ m \in Avl!Above[n] /\ In(plr)[m] < In(plr)[n] /\ In(lrp)[n] < In(lrp)[m]
                         \/ n \in Avl!Above[m] /\ In(plr)[n] < In(plr)[m] /\ In(lrp)[m] < In(lrp)[n]
                         \/ /\ m \notin Avl!Above[n] /\ n \notin Avl!Above[m]
                            /\ (In(plr)[m] < In(plr)[n]) = (In(lpr)[m] < In(lpr)[n])
                            /\ (In(lrp)[m] < In(lrp)[n]) = (In(lpr)[m] < In(lpr)[n])
      OBVIOUS
    <3>2. m \in 1 .. Len(tree) /\ n \in 1 .. Len(tree)
      BY <3>1
    <3>3. /\ In(plr)[m] = Place(plr, m) /\ In(lpr)[m] = Place(lpr, m) /\ In(lrp)[m] = Place(lrp, m)
          /\ In(plr)[n] = Place(plr, n) /\ In(lpr)[n] = Place(lpr, n) /\ In(lrp)[n] = Place(lrp, n)
      BY <2>3
    <3>. QED BY <2>2, <3>2, <3>3, AboveIs
  <2>. QED BY <2>4, Zenon DEF Avl!DisplaysAgree, In, plr, lpr, lrp
<1>. QED BY <1>2, <1>3

\* Depths are heights, and the three displays are sorted and of the same tree, for every
\* order in which any elements are inserted.
THEOREM TreeSound == Avl!Spec => [](Avl!TypeOK /\ Avl!DepthIsHeight /\ Avl!SortedInOrder /\ Avl!DisplaysAgree)
<1>1. Avl!Init => AvlInv
  BY AvlInit
<1>2. AvlInv /\ [Avl!Next]_Avl!vars => AvlInv'
  BY AvlStep
<1>3. AvlInv => Avl!TypeOK /\ Avl!DepthIsHeight /\ Avl!SortedInOrder /\ Avl!DisplaysAgree
  BY AvlTyped, AvlDisplays
<1>. QED BY <1>1, <1>2, <1>3, PTL DEF Avl!Spec

\* The five data structures keep their order, each at every step of its own.
THEOREM OrderKept ==
  Heap!Spec /\ Hash!Spec /\ Avl!Spec /\ Arrays!Spec /\ List!Spec => []OrderIsKept
<1>1. /\ Heap!TypeOK /\ Heap!HeapOrder
      /\ Hash!TypeOK /\ Hash!ScanIsComplete
      /\ Avl!TypeOK /\ Avl!DepthIsHeight /\ Avl!SortedInOrder /\ Avl!DisplaysAgree
      /\ Arrays!TypeOK /\ Arrays!NothingIsLost /\ Arrays!RangesAreSeparate /\ Arrays!EndsSorted /\ Arrays!QuickNeedsDistinct
      /\ List!TypeOK /\ List!SplitAtP /\ List!FreesAll
      => OrderIsKept
  BY DEF OrderIsKept
<1>. QED BY <1>1, HeapSound, ScanSound, TreeSound, SortSound, ListSound, PTL
=============================================================================
