------------------------------- MODULE ReadIni -------------------------------
(***************************************************************************)
(* component/readIni.cpp: TReadIni reads a configuration file into a map     *)
(* the first time a value is asked for, and again at each question until a   *)
(* reading succeeds.  The file may be edited between readings.              *)
(*                                                                         *)
(* A line is a section ("[s]"), a section without "]" ("open"), a pair      *)
(* ("n=v") or something without "=" ("other": an empty line is one, and a   *)
(* comment too unless there is a "=" in it, when it is a pair, because the  *)
(* test of line 62 is never true).  A value keeps its end of line, and      *)
(* readInt and readDouble convert what readString gives.                   *)
(***************************************************************************)
EXTENDS Integers, Sequences, FiniteSets, FiniteSetsExt, SequencesExt

CONSTANTS Sections, Names, Vals,
          MaxLines,     \* lines of a file
          MaxEdits,     \* times it is edited
          MaxOpen       \* files the process can have open

Blank == ""             \* the empty string

ReadIniAssumption == /\ MaxLines \in Nat /\ MaxEdits \in Nat /\ MaxOpen \in Nat
                     /\ Blank \notin Sections \cup Names \cup Vals

Lines == [kind : {"section"}, s : Sections] \cup [kind : {"pair"}, n : Names, v : Vals]
            \cup [kind : {"open", "other"}]
Files == SeqOf(Lines, MaxLines)

\* The section before the first "[s]" is the empty one.
TSectionName == [section : Sections \cup {Blank}, name : Names]
Nobody == [section |-> Blank, name |-> Blank]

VARIABLES file, edits,
          pc,           \* "idle" or "parse"
          asked,        \* the key that is asked for
          pos, sSection,
          iInitFlag, mapData,
          leaked,       \* files that were opened; none is closed
          got,          \* what the last question was answered
          image         \* the file as it was when it was read with success (history)

vars == <<file, edits, pc, asked, pos, sSection, iInitFlag, mapData, leaked, got, image>>

NoData == [k \in {} |-> Blank]

Init == /\ file \in Files /\ edits = 0
        /\ pc = "idle" /\ asked = Nobody /\ pos = 0 /\ sSection = Blank
        /\ iInitFlag = 0 /\ mapData = NoData /\ leaked = 0
        /\ got = [code |-> "none", val |-> Blank]
        /\ image = <<>>

Edit(f) == /\ edits < MaxEdits /\ pc = "idle"
           /\ edits' = edits + 1
           /\ file' = f
           /\ UNCHANGED <<pc, asked, pos, sSection, iInitFlag, mapData, leaked, got, image>>

----------------------------------------------------------------------------
PutData(data, k, v) == [j \in DOMAIN data \cup {k} |-> IF j = k THEN v ELSE data[j]]

\* mapData[tData]: a key that is not there is put there with the empty string.
Answer(data, k) == LET v == IF k \in DOMAIN data THEN data[k] ELSE Blank
                   IN  /\ mapData' = PutData(data, k, v)
                       /\ got' = [code |-> "RS_SUCCESS", val |-> v]

\* readInt, readDouble or readString, when the file has been read.
ReadValue(k) == /\ pc = "idle" /\ iInitFlag = 1
                /\ Answer(mapData, k)
                /\ UNCHANGED <<file, edits, pc, asked, pos, sSection, iInitFlag, leaked, image>>

\* A bug for Open: what an earlier attempt read is kept.
OpenNoClear(k) == /\ pc = "idle" /\ iInitFlag = 0 /\ leaked < MaxOpen
                  /\ pc' = "parse" /\ asked' = k /\ pos' = 1 /\ sSection' = Blank
                  /\ leaked' = leaked + 1
                  /\ UNCHANGED <<file, edits, iInitFlag, mapData, got, image>>

\* Otherwise the file is read first.
Open(k) == /\ pc = "idle" /\ iInitFlag = 0 /\ leaked < MaxOpen
           /\ pc' = "parse" /\ asked' = k /\ pos' = 1 /\ sSection' = Blank
           /\ mapData' = NoData
           /\ leaked' = leaked + 1
           /\ UNCHANGED <<file, edits, iInitFlag, got, image>>

OpenFails == /\ pc = "idle" /\ iInitFlag = 0
             /\ mapData' = NoData
             /\ got' = [code |-> "RS_COMMON", val |-> Blank]
             /\ UNCHANGED <<file, edits, pc, asked, pos, sSection, iInitFlag, leaked, image>>

Line == file[pos]

\* The test for an empty section (line 80) compares with the digit 0: never true.
ReadLine == /\ pc = "parse" /\ pos <= Len(file)
            /\ CASE Line.kind = "section" -> sSection' = Line.s /\ UNCHANGED mapData
                 [] Line.kind = "pair" ->
                       /\ mapData' = PutData(mapData, [section |-> sSection, name |-> Line.n], Line.v)
                       /\ UNCHANGED sSection
                 [] OTHER -> FALSE
            /\ pos' = pos + 1
            /\ UNCHANGED <<file, edits, pc, asked, iInitFlag, leaked, got, image>>

\* The reading is given up; what was read so far stays in the map.
Return == /\ pc' = "idle" /\ asked' = Nobody /\ pos' = 0 /\ sSection' = Blank
                /\ UNCHANGED <<file, edits, leaked>>

LineFails == /\ pc = "parse" /\ pos <= Len(file)
             /\ Line.kind \in {"open", "other"}
             /\ Return
             /\ got' = [code |-> "RS_COMMON", val |-> Blank]
             /\ UNCHANGED <<iInitFlag, mapData, image>>

EndOfFile == /\ pc = "parse" /\ pos > Len(file)
             /\ Return
             /\ iInitFlag' = 1 /\ image' = file
             /\ Answer(mapData, asked)

Ask == \/ OpenFails \/ ReadLine \/ LineFails \/ EndOfFile
       \/ \E k \in TSectionName : ReadValue(k) \/ Open(k)

Next == Ask \/ \E f \in Files : Edit(f)

\* The program asks again as long as it gets no answer, and calls return.
Fairness == WF_vars(ReadLine \/ LineFails \/ EndOfFile) /\ WF_vars(\E k \in TSectionName : Open(k))

Spec == Init /\ [][Next]_vars /\ Fairness

----------------------------------------------------------------------------
(* Properties *)

\* The variables have their types.
TypeOK == /\ pc \in {"idle", "parse"} /\ edits \in 0 .. MaxEdits /\ leaked \in 0 .. MaxOpen
          /\ pos \in 0 .. MaxLines + 1 /\ sSection \in Sections \cup {Blank}
          /\ iInitFlag \in {0, 1}
          /\ asked \in TSectionName \cup {Nobody}
          /\ DOMAIN mapData \subseteq TSectionName
          /\ \A k \in DOMAIN mapData : mapData[k] \in Vals \cup {Blank}

\* What a file says of a key: the last pair with this name among those whose
\* nearest section line above is this section.
SectionAt(f, p) == LET S == {q \in 1 .. p - 1 : f[q].kind = "section"}
                   IN  IF S = {} THEN Blank ELSE f[Max(S)].s
ValueIn(f, k) == LET hits == {p \in DOMAIN f : /\ f[p].kind = "pair" /\ f[p].n = k.name
                                               /\ SectionAt(f, p) = k.section}
                 IN  IF hits = {} THEN Blank ELSE f[Max(hits)].v
WellFormed(f) == \A p \in DOMAIN f : f[p].kind \in {"section", "pair"}

\* Once the file has been read the map gives for every key what that one version
\* of the file says: nothing is left of readings that failed before, and the
\* empty entries that questions leave behind change no answer.
MapIsTheFile == iInitFlag = 1 =>
    /\ WellFormed(image)
    /\ \A k \in TSectionName : (IF k \in DOMAIN mapData THEN mapData[k] ELSE Blank) = ValueIn(image, k)

\* A file that is mended after failed readings is read in the end, as long as the
\* files that failed readings left open have not used up the descriptors.
MendedFileIsRead ==
    (pc = "idle" /\ edits = MaxEdits /\ WellFormed(file) /\ leaked < MaxOpen) ~> (iInitFlag = 1)

==============================================================================
