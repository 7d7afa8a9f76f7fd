------------------------------ MODULE MroFiles ------------------------------
(***************************************************************************)
(* temp/dealMROandMRE.cpp: a batch that copies measurement files to          *)
(* /home/hu_file, reads them one after the other and writes a table for      *)
(* each to /home/saveFile.  It runs shell commands and does not look at      *)
(* what they return.  A file that was copied can be opened (the return of a  *)
(* failing fopen, line 282, is left out).                                  *)
(*                                                                         *)
(* A line of a file is "object", the header of an object; a row of values    *)
(* of the last object, "far" or, if the neighbour cell's signal overlaps,    *)
(* "near", or "near3" if the cells' numbers agree modulo 3 too; "end", the   *)
(* end of a measurement; or "other".  A file begins with an object before    *)
(* its first row, and its name says its kind.  The third number of a row     *)
(* depends on nothing but the row and is left out.                          *)
(***************************************************************************)
EXTENDS Integers, Sequences, FiniteSets, FiniteSetsExt

CONSTANTS Kind,       \* the files of argv[1], a function to "MRE", "MRO" or "neither"
          Texts,      \* what a file may hold
          NoFile

Files == DOMAIN Kind
Lines == {"object", "far", "near", "near3", "end", "other"}
RowLines == {"far", "near", "near3"}

ASSUME MroAssumption == /\ IsFiniteSet(Files) /\ NoFile \notin Files /\ Kind \in [Files -> {"MRE", "MRO", "neither"}]
                        /\ Texts \subseteq Seq(Lines)
                        /\ \A t \in Texts : \A n \in DOMAIN t : t[n] \in RowLines => \E m \in 1 .. n : t[m] = "object"

VARIABLES text,       \* by file
          writable,   \* entries of /home may be made and removed
          hu_file,    \* /home/hu_file: "none", "dir" or "file"
          saveFile,   \* /home/saveFile is there
          inside,     \* the files in /home/hu_file
          pc,         \* "main", "copy", "open", "loop", "deal", "exit" (by exit(0)) or "end"
          unread,     \* files readdir has still to return
          cur, line,  \* the file and the next line
          object,     \* strcMROBuf or strcMREBuf: the line of the last object
          OVERLAPP_COVERAGE, MOD3_NCELLS,
          vec,        \* vecMRE and vecMRO, by kind
          csv,        \* the tables that were written, by file
          dealt       \* the files in the order in which they were read (history)

batch == <<vec, csv, dealt, OVERLAPP_COVERAGE, MOD3_NCELLS, object>>
home == <<text, writable, hu_file, saveFile, inside>>
vars == <<home, pc, unread, cur, line, batch>>

Init == /\ text \in [Files -> Texts]
        /\ writable \in BOOLEAN /\ hu_file \in {"none", "dir"} /\ saveFile \in BOOLEAN /\ inside = {}
        /\ pc = "main" /\ unread = {} /\ cur = NoFile /\ line = 0 /\ object = 0
        /\ OVERLAPP_COVERAGE = 0 /\ MOD3_NCELLS = 0
        /\ vec = [k \in {"MRE", "MRO"} |-> <<>>]
        /\ csv = [f \in {} |-> <<>>] /\ dealt = <<>>

----------------------------------------------------------------------------
\* mkdir -p for both directories, then rm -rf, which cannot remove the
\* directory itself if /home is not writable.
MakeDirectories == /\ pc = "main"
                   /\ saveFile' = (saveFile \/ writable)
                   /\ hu_file' = IF writable THEN "none" ELSE hu_file
                   /\ inside' = {}
                   /\ pc' = "copy"
                   /\ UNCHANGED <<text, writable, unread, cur, line, batch>>

\* cp of several files needs a directory; one file alone becomes /home/hu_file.
Copy == /\ pc = "copy"
        /\ IF hu_file = "dir" THEN inside' = Files /\ UNCHANGED hu_file
           ELSE /\ hu_file' = IF writable /\ Cardinality(Files) = 1 THEN "file" ELSE hu_file
                /\ UNCHANGED inside
        /\ pc' = "open"
        /\ UNCHANGED <<text, writable, saveFile, unread, cur, line, batch>>

getDirectoryList == /\ pc = "open"
                    /\ pc' = IF hu_file = "dir" THEN "loop" ELSE "exit"
                    /\ unread' = inside
                    /\ UNCHANGED <<home, cur, line, batch>>

\* A turn of main's loop up to the first line: readdir returns the files in any order.
dealingFile(f) == /\ pc = "loop" /\ f \in unread
                  /\ unread' = unread \ {f}
                  /\ IF Kind[f] = "neither" THEN UNCHANGED <<pc, cur, line, dealt>>
                     ELSE pc' = "deal" /\ cur' = f /\ line' = 1 /\ dealt' = Append(dealt, f)
                  /\ UNCHANGED <<home, vec, csv, OVERLAPP_COVERAGE, MOD3_NCELLS, object>>

At(l) == pc = "deal" /\ line <= Len(text[cur]) /\ text[cur][line] = l

\* A bug for Object: the counters of an MRO file go on.
ObjectGoesOn == /\ At("object")
                /\ object' = line
                /\ line' = line + 1
                /\ UNCHANGED <<home, pc, unread, cur, vec, csv, dealt, OVERLAPP_COVERAGE, MOD3_NCELLS>>

Object == /\ At("object")
          /\ object' = line
          /\ IF Kind[cur] = "MRO" THEN OVERLAPP_COVERAGE' = 0 /\ MOD3_NCELLS' = 0
             ELSE UNCHANGED <<OVERLAPP_COVERAGE, MOD3_NCELLS>>
          /\ line' = line + 1
          /\ UNCHANGED <<home, pc, unread, cur, vec, csv, dealt>>

\* A row goes to the vector with the counters as they are then.
Row(l) == /\ At(l)
          /\ IF Kind[cur] = "MRO" THEN /\ OVERLAPP_COVERAGE' = OVERLAPP_COVERAGE + (IF l # "far" THEN 1 ELSE 0)
                                       /\ MOD3_NCELLS' = MOD3_NCELLS + (IF l = "near3" THEN 1 ELSE 0)
             ELSE UNCHANGED <<OVERLAPP_COVERAGE, MOD3_NCELLS>>
          /\ vec' = [vec EXCEPT ![Kind[cur]] = Append(@, [file |-> cur, line |-> line, object |-> object,
                        overlap |-> IF Kind[cur] = "MRO" THEN OVERLAPP_COVERAGE' ELSE 0,
                        mod3 |-> IF Kind[cur] = "MRO" THEN MOD3_NCELLS' ELSE 0])]
          /\ line' = line + 1
          /\ UNCHANGED <<home, pc, unread, cur, csv, dealt, object>>

\* The end of the file, or for MRO of the first measurement.
AtEnd == pc = "deal" /\ (line <= Len(text[cur]) => Kind[cur] = "MRO" /\ text[cur][line] = "end")

SkipLine == /\ At("other") \/ (At("end") /\ ~AtEnd)
            /\ line' = line + 1
            /\ UNCHANGED <<home, pc, unread, cur, batch>>

\* The whole vector is written; nothing empties it.
createCsvFile == /\ AtEnd
                 /\ csv' = IF saveFile THEN [f \in DOMAIN csv \cup {cur} |-> IF f = cur THEN vec[Kind[cur]] ELSE csv[f]]
                           ELSE csv
                 /\ pc' = "loop"
                 /\ UNCHANGED <<home, unread, cur, line, vec, dealt, OVERLAPP_COVERAGE, MOD3_NCELLS, object>>

\* cd runs in a shell of its own, and rm -rf hu_file then in the directory the
\* program was started in: nothing of /home/hu_file is removed.
Finish == /\ pc = "loop" /\ unread = {}
          /\ pc' = "end"
          /\ UNCHANGED <<home, unread, cur, line, batch>>

Next == \/ MakeDirectories \/ Copy \/ getDirectoryList \/ Object \/ SkipLine \/ createCsvFile \/ Finish
        \/ \E f \in Files : dealingFile(f)
        \/ \E l \in RowLines : Row(l)

\* The program is one process and goes on.
Fairness == WF_vars(Next)

Spec == Init /\ [][Next]_vars /\ Fairness

----------------------------------------------------------------------------
(* Properties *)

TypeOK == /\ text \in [Files -> Texts] /\ hu_file \in {"none", "dir", "file"} /\ inside \subseteq Files
          /\ pc \in {"main", "copy", "open", "loop", "deal", "exit", "end"}
          /\ unread \subseteq Files /\ cur \in Files \cup {NoFile}
          /\ pc = "deal" => line \in 1 .. Len(text[cur]) + 1
          /\ DOMAIN csv \subseteq {f \in Files : Kind[f] # "neither"}

\* The rows of a file: of MRO those of the first measurement.
RowsOf(f) == {n \in DOMAIN text[f] : /\ text[f][n] \in RowLines
                                     /\ Kind[f] = "MRO" => \A m \in 1 .. n : text[f][m] # "end"}
ObjectOf(f, n) == Max({m \in 1 .. n : text[f][m] = "object"})
CountOf(f, n, S) == IF Kind[f] = "MRO" THEN Cardinality({m \in ObjectOf(f, n) .. n : text[f][m] \in S}) ELSE 0

\* Every row is written with its own object and with the counts of that object's
\* rows up to it, whatever files were read before: the counters are global, and
\* an MRE file between two MRO files leaves them alone.
RowsAreOfTheirObject == \A f \in DOMAIN csv : \A k \in DOMAIN csv[f] : LET r == csv[f][k] IN
    /\ r.object = ObjectOf(r.file, r.line)
    /\ r.overlap = CountOf(r.file, r.line, {"near", "near3"})
    /\ r.mod3 = CountOf(r.file, r.line, {"near3"})

\* A table holds the rows of its file and, since the vectors are never emptied,
\* before them those of the files of its kind that readdir returned earlier, each once.
TablesAccumulate == \A f \in DOMAIN csv :
    LET Before == {k \in DOMAIN dealt : Kind[dealt[k]] = Kind[f] /\ \E j \in k .. Len(dealt) : dealt[j] = f}
        Pos(g) == CHOOSE k \in DOMAIN dealt : dealt[k] = g
    IN /\ {<<csv[f][k].file, csv[f][k].line>> : k \in DOMAIN csv[f]} = UNION {{dealt[k]} \X RowsOf(dealt[k]) : k \in Before}
       /\ \A i, j \in DOMAIN csv[f] : i < j => \/ Pos(csv[f][i].file) < Pos(csv[f][j].file)
                                               \/ csv[f][i].file = csv[f][j].file /\ csv[f][i].line < csv[f][j].line

\* If the files can be read at all, every MRE and MRO file has a table in the end.
DealtIfRead == pc = "end" /\ saveFile => DOMAIN csv = {f \in Files : Kind[f] # "neither"}

\* The batch ends.
BatchEnds == <>(pc \in {"exit", "end"})

\* What main is for: files are copied and "have dealed all files" is reported.
AllAreDealtWith == pc \in {"exit", "end"} /\ saveFile => DOMAIN csv = {f \in Files : Kind[f] # "neither"}

==============================================================================
