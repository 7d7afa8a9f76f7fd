----------------------------- MODULE ShmRingProofs -----------------------------
(***************************************************************************)
(* Proofs about ShmRing, ShmInit and ShmRace for every set of messages,    *)
(* every size of heads and messages and every segment that has room for a  *)
(* head.                                                                   *)
(*                                                                         *)
(* The control block keeps two positions and a sign.  What makes the ring  *)
(* a queue is how the messages in transit lie between the positions, and   *)
(* that is what the inductive invariant says: the oldest k of them are in  *)
(* the reader's lap, one after the other from readPos on, and the others   *)
(* in the writer's next lap, one after the other from StartPos to writePos *)
(* (Laps); each is where it was copied to, and nothing else is (Holds).    *)
(***************************************************************************)
EXTENDS MCShmOverlap, SequenceTheorems, TLAPS

\* The first cell behind message i.
After(i) == at[i] + Total(queue[i])

Index == 1 .. Len(queue)

Laps(k) ==
    /\ k \in 0 .. Len(queue)
    /\ ctrl.iDir = 1 => /\ k = Len(queue)
                        /\ ctrl.readPos <= ctrl.writePos
                        /\ k = 0 => ctrl.readPos = ctrl.writePos
                        /\ k > 0 => After(k) = ctrl.writePos
    /\ ctrl.iDir = -1 => /\ ctrl.writePos <= ctrl.readPos
                         /\ k = Len(queue) => ctrl.writePos = StartPos
                         /\ k < Len(queue) => After(Len(queue)) = ctrl.writePos
    /\ k > 0 => at[1] = ctrl.readPos
    /\ k < Len(queue) => at[k + 1] = StartPos
    /\ \A i \in Index : i # k /\ i < Len(queue) => at[i + 1] = After(i)
    /\ \A i \in Index : i <= k => ctrl.readPos <= at[i] /\ After(i) <= EndPos
    /\ \A i \in Index : i <= k /\ ctrl.iDir = 1 => After(i) <= ctrl.writePos
    /\ \A i \in Index : i > k => StartPos <= at[i] /\ After(i) <= ctrl.writePos
    /\ \A i, j \in Index : i < j /\ (j <= k \/ k < i) => After(i) <= at[j]

Holds ==
    /\ \A i \in Index : mem[at[i]] = queue[i]
    /\ \A a \in Cells : mem[a] # Zero <=> \E i \in Index : at[i] <= a /\ a < After(i)

RingInv ==
    /\ Len(at) = Len(queue)
    /\ ctrl.iInitFlag = 0 => queue = <<>> /\ \A p \in Procs : pc[p] \notin {"write", "read"}
    /\ ctrl.iInitFlag = 1 => /\ ctrl.iDir \in {-1, 1}
                             /\ ctrl.readPos \in StartPos .. EndPos
                             /\ ctrl.writePos \in StartPos .. EndPos
                             /\ \E k \in 0 .. Len(queue) : Laps(k)

\* The types of what the ring itself keeps.
RingTypes == /\ ctrl \in Control
             /\ mem \in [Cells -> Messages \cup {Zero, Body}]
             /\ queue \in Seq(Messages)
             /\ at \in Seq(Cells)

RingOK == RingTypes /\ RingInv /\ Holds

IInv == TypeOK /\ RingOK

\* A message takes more cells than its head.
LEMMA TotalType ==
  ASSUME NEW m \in Messages
  PROVE  Total(m) \in Nat /\ HeadSize < Total(m) /\ Total(m) = HeadSize + Size(m)
BY SizeAssumption, PosAssumption DEF Total

\* A head that is moved leaves the rest of the SHM_CONTROL alone.
LEMMA HeadMoved ==
  ASSUME NEW c \in Control, NEW n \in Nat
  PROVE  /\ [c EXCEPT !.readPos = n] \in Control /\ [c EXCEPT !.writePos = n] \in Control
         /\ [c EXCEPT !.readPos = n].readPos = n /\ [c EXCEPT !.readPos = n].writePos = c.writePos
         /\ [c EXCEPT !.readPos = n].iInitFlag = c.iInitFlag /\ [c EXCEPT !.readPos = n].iDir = c.iDir
         /\ [c EXCEPT !.writePos = n].writePos = n /\ [c EXCEPT !.writePos = n].readPos = c.readPos
         /\ [c EXCEPT !.writePos = n].iInitFlag = c.iInitFlag /\ [c EXCEPT !.writePos = n].iDir = c.iDir
BY DEF Control

\* The messages in transit and where they lie.
LEMMA IndexType ==
  ASSUME RingOK, NEW i \in Index
  PROVE  /\ queue[i] \in Messages /\ at[i] \in Cells /\ at[i] \in Nat
         /\ After(i) \in Nat /\ at[i] + HeadSize < After(i)
<1>1. queue[i] \in Messages /\ at[i] \in Cells
  BY DEF RingOK, RingTypes, RingInv, Index
<1>2. at[i] \in Nat
  BY <1>1, PosAssumption DEF Cells
<1> QED BY <1>1, <1>2, TotalType, PosAssumption DEF After

\* The positions are numbers, and iDir tells the two judgements which one is ahead.
LEMMA SignDecides ==
  ASSUME ctrl \in Control, DirTellsLap, ctrl.iInitFlag = 1
  PROVE  /\ ctrl.readPos \in Nat /\ ctrl.writePos \in Nat
         /\ ctrl.readPos \in StartPos .. EndPos /\ ctrl.writePos \in StartPos .. EndPos
         /\ ctrl.iDir = 1 \/ ctrl.iDir = -1
         /\ ctrl.iDir = 1 => ctrl.readPos <= ctrl.writePos
         /\ ctrl.iDir = -1 => ctrl.writePos <= ctrl.readPos
         /\ WriterAhead(ctrl) <=> ctrl.iDir = 1
         /\ ReaderAhead(ctrl) <=> ctrl.iDir = -1
<1>1. /\ ctrl.readPos \in Nat /\ ctrl.writePos \in Nat
      /\ ctrl.readPos \in StartPos .. EndPos /\ ctrl.writePos \in StartPos .. EndPos
      /\ \/ ctrl.iDir = 1 /\ ctrl.readPos <= ctrl.writePos
         \/ ctrl.iDir = -1 /\ ctrl.writePos <= ctrl.readPos
  BY PosAssumption DEF DirTellsLap, Control
<1> QED BY <1>1 DEF WriterAhead, ReaderAhead

\* The same of a sound ring.
LEMMA DirDecides ==
  ASSUME RingOK, ctrl.iInitFlag = 1
  PROVE  /\ ctrl \in Control /\ DirTellsLap
         /\ ctrl.readPos \in Nat /\ ctrl.writePos \in Nat
         /\ ctrl.readPos \in StartPos .. EndPos /\ ctrl.writePos \in StartPos .. EndPos
         /\ ctrl.iDir = 1 \/ ctrl.iDir = -1
         /\ ctrl.iDir = 1 => ctrl.readPos <= ctrl.writePos
         /\ ctrl.iDir = -1 => ctrl.writePos <= ctrl.readPos
         /\ WriterAhead(ctrl) <=> ctrl.iDir = 1
         /\ ReaderAhead(ctrl) <=> ctrl.iDir = -1
<1>1. ctrl \in Control /\ DirTellsLap
  BY DEF RingOK, RingTypes, RingInv, Laps, DirTellsLap
<1> QED BY <1>1, SignDecides

\* What the two wraps do to the control block.
LEMMA WrapType ==
  ASSUME NEW c \in Control, c.iDir = 1 \/ c.iDir = -1
  PROVE  /\ WrapWriter(c) \in Control
         /\ WrapWriter(c).iInitFlag = c.iInitFlag /\ WrapWriter(c).readPos = c.readPos
         /\ WrapWriter(c).iDir = - c.iDir /\ WrapWriter(c).writePos = StartPos
         /\ WrapReader(c) \in Control
         /\ WrapReader(c).iInitFlag = c.iInitFlag /\ WrapReader(c).writePos = c.writePos
         /\ WrapReader(c).iDir = - c.iDir /\ WrapReader(c).readPos = StartPos
<1> DEFINE w == [c EXCEPT !.writePos = StartPos]
           r == [c EXCEPT !.readPos = StartPos]
<1>1. /\ w \in Control
      /\ w.iInitFlag = c.iInitFlag /\ w.readPos = c.readPos
      /\ w.iDir = c.iDir /\ w.writePos = StartPos
  BY PosAssumption DEF Control
<1>2. /\ r \in Control
      /\ r.iInitFlag = c.iInitFlag /\ r.writePos = c.writePos
      /\ r.iDir = c.iDir /\ r.readPos = StartPos
  BY PosAssumption DEF Control
<1>3. /\ WrapWriter(c) = [w EXCEPT !.iDir = c.iDir * (-1)]
      /\ WrapReader(c) = [r EXCEPT !.iDir = c.iDir * (-1)]
  BY Zenon DEF WrapWriter, WrapReader
<1>4. c.iDir * (-1) \in {-1, 0, 1} /\ c.iDir * (-1) = - c.iDir
  OBVIOUS
<1> HIDE DEF w, r
<1>5. [w EXCEPT !.iDir = c.iDir * (-1)] \in Control
  BY <1>1, <1>4 DEF Control
<1>6. [r EXCEPT !.iDir = c.iDir * (-1)] \in Control
  BY <1>2, <1>4 DEF Control
<1> QED BY <1>1, <1>2, <1>3, <1>4, <1>5, <1>6 DEF Control

\* What judegeWrite finds, with the writer ahead or a lap ahead.
LEMMA WriteJudged ==
  ASSUME ctrl \in Control, DirTellsLap, ctrl.iInitFlag = 1, NEW m \in Messages
  PROVE  LET j == judegeWrite(ctrl, Total(m))
         IN  /\ j.ctrl \in Control
             /\ j.ctrl.iInitFlag = 1 /\ j.ctrl.readPos = ctrl.readPos
             /\ \/ /\ ctrl.iDir = 1 /\ j.ctrl = ctrl
                   /\ j.ok /\ ctrl.writePos + Total(m) <= EndPos
                \/ /\ ctrl.iDir = 1 /\ j.ctrl.iDir = -1 /\ j.ctrl.writePos = StartPos
                   /\ j.ok <=> StartPos + Total(m) <= ctrl.readPos
                   /\ ctrl.writePos + Total(m) > EndPos
                \/ /\ ctrl.iDir = -1 /\ j.ctrl = ctrl
                   /\ j.ok <=> ctrl.writePos + Total(m) <= ctrl.readPos
<1>1. ctrl \in Control
  OBVIOUS
<1>2. CASE ctrl.iDir = 1 /\ ctrl.writePos + Total(m) <= EndPos
  BY <1>1, <1>2, SignDecides DEF judegeWrite, FitsAtEnd
<1>3. CASE ctrl.iDir = 1 /\ ~ (ctrl.writePos + Total(m) <= EndPos)
  <2>1. judegeWrite(ctrl, Total(m)).ctrl = WrapWriter(ctrl)
    BY <1>3, SignDecides DEF judegeWrite, FitsAtEnd
  <2>2. /\ WrapWriter(ctrl) \in Control
        /\ WrapWriter(ctrl).iInitFlag = 1 /\ WrapWriter(ctrl).readPos = ctrl.readPos
        /\ WrapWriter(ctrl).iDir = -1 /\ WrapWriter(ctrl).writePos = StartPos
    BY <1>1, <1>3, WrapType
  <2>3. judegeWrite(ctrl, Total(m)).ok <=> StartPos + Total(m) <= ctrl.readPos
    BY <1>3, <2>2, SignDecides, TotalType, PosAssumption DEF judegeWrite, FitsAtEnd
  <2> QED BY <1>3, <2>1, <2>2, <2>3, SignDecides, TotalType, PosAssumption
<1>4. CASE ctrl.iDir = -1
  BY <1>1, <1>4, SignDecides, TotalType, PosAssumption DEF judegeWrite
<1> QED BY <1>2, <1>3, <1>4, SignDecides

\* What judegeRead finds: a message if there is one in transit, at the position it
\* returns, after going to the next lap if the reader's lap has none.
LEMMA ReadJudged ==
  ASSUME RingOK, ctrl.iInitFlag = 1, NEW k \in 0 .. Len(queue), Laps(k)
  PROVE  LET j == judegeRead(ctrl, mem)
         IN  /\ j.ctrl \in Control
             /\ j.ctrl.iInitFlag = 1 /\ j.ctrl.writePos = ctrl.writePos
             /\ j.ok <=> Len(queue) > 0
             /\ Len(queue) > 0 => j.ctrl.readPos = at[1]
             /\ \/ k > 0 /\ j.ctrl = ctrl
                \/ k = 0 /\ ctrl.iDir = 1 /\ j.ctrl = ctrl
                \/ /\ k = 0 /\ ctrl.iDir = -1
                   /\ j.ctrl.iDir = 1 /\ j.ctrl.readPos = StartPos
<1>1. ctrl \in Control /\ Len(queue) \in Nat
  BY DEF RingOK, RingTypes
<1>2. CASE k > 0
  <2>1. 1 \in Index /\ k \in Index
    BY <1>1, <1>2 DEF Index
  <2>2. at[1] = ctrl.readPos /\ After(1) <= EndPos
    BY <1>2, <2>1 DEF Laps
  <2>3. HeadAt(mem, ctrl.readPos) = Size(queue[1])
    BY <2>1, <2>2, IndexType DEF HeadAt, RingOK, Holds
  <2>4. /\ Size(queue[1]) \in Nat /\ Size(queue[1]) > 0
        /\ After(1) = ctrl.readPos + HeadSize + Size(queue[1])
    <3>1. queue[1] \in Messages /\ at[1] \in Nat
      BY <2>1, IndexType
    <3>2. Size(queue[1]) \in Nat /\ Size(queue[1]) > 0 /\ HeadSize \in Nat
      BY <3>1, SizeAssumption, PosAssumption
    <3> QED BY <2>2, <3>1, <3>2 DEF After, Total
  <2>5. MoreInLap(ctrl, mem)
    BY <2>2, <2>3, <2>4, DirDecides, PosAssumption DEF MoreInLap
  <2>6. ctrl.iDir = 1 => ctrl.readPos < ctrl.writePos
    BY <1>2, <2>1, <2>2, IndexType, DirDecides, PosAssumption DEF Laps
  <2> QED BY <1>1, <1>2, <2>2, <2>5, <2>6, DirDecides DEF judegeRead
<1>3. CASE k = 0 /\ ctrl.iDir = 1
  <2>1. Len(queue) = 0 /\ ctrl.readPos = ctrl.writePos
    BY <1>3 DEF Laps
  <2> QED BY <1>1, <1>3, <2>1, DirDecides DEF judegeRead
<1>4. CASE k = 0 /\ ctrl.iDir = -1
  <2>1. ~ MoreInLap(ctrl, mem)
    <3> SUFFICES ASSUME ctrl.readPos + HeadSize < EndPos
                 PROVE  HeadAt(mem, ctrl.readPos) = 0
      BY DEF MoreInLap
    <3>1. ctrl.readPos \in Cells
      BY DirDecides, PosAssumption DEF Cells
    <3>2. \A i \in Index : ~ (ctrl.readPos < After(i))
      BY <1>4, IndexType, DirDecides DEF Laps, Index
    <3>3. mem[ctrl.readPos] = Zero
      BY <3>1, <3>2 DEF RingOK, Holds
    <3> QED BY <3>3, CellAssumption DEF HeadAt
  <2>2. judegeRead(ctrl, mem).ctrl = WrapReader(ctrl)
    BY <1>4, <2>1, DirDecides DEF judegeRead
  <2>3. /\ WrapReader(ctrl) \in Control
        /\ WrapReader(ctrl).iInitFlag = 1 /\ WrapReader(ctrl).writePos = ctrl.writePos
        /\ WrapReader(ctrl).iDir = 1 /\ WrapReader(ctrl).readPos = StartPos
    BY <1>1, <1>4, WrapType
  <2>4. judegeRead(ctrl, mem).ok <=> ctrl.writePos > StartPos
    BY <1>4, <2>1, <2>3, DirDecides DEF judegeRead
  <2>5. CASE Len(queue) = 0
    <3>1. ctrl.writePos = StartPos
      BY <1>4, <2>5 DEF Laps
    <3> QED BY <1>4, <2>2, <2>3, <2>4, <2>5, <3>1, DirDecides, PosAssumption
  <2>6. CASE Len(queue) > 0
    <3>1. Len(queue) \in Index
      BY <1>1, <2>6 DEF Index
    <3>2. at[1] = StartPos /\ After(Len(queue)) = ctrl.writePos
          /\ StartPos <= at[Len(queue)]
      BY <1>4, <2>6, <3>1 DEF Laps
    <3>3. ctrl.writePos > StartPos
      BY <3>1, <3>2, IndexType, PosAssumption
    <3> QED BY <1>4, <2>2, <2>3, <2>4, <2>6, <3>2, <3>3
  <2> QED BY <1>1, <2>5, <2>6
<1> QED BY <1>2, <1>3, <1>4, DirDecides

\* What a read does: it delivers message 1, clears its cells and passes over it.
LEMMA ReadFacts ==
  ASSUME RingOK, NEW p \in Procs, readData(p), NEW k \in 0 .. Len(queue), Laps(k)
  PROVE  /\ ctrl.iInitFlag = 1 /\ Len(queue) > 0
         /\ result' = <<"read", queue[1]>>
         /\ mem' = Clear(mem, at[1], Total(queue[1]))
         /\ queue' = Tail(queue) /\ at' = Tail(at)
         /\ ctrl' \in Control /\ ctrl'.iInitFlag = 1
         /\ ctrl'.readPos = After(1) /\ ctrl'.writePos = ctrl.writePos
         /\ \/ k > 0 /\ ctrl'.iDir = ctrl.iDir
            \/ k = 0 /\ ctrl.iDir = -1 /\ ctrl'.iDir = 1
<1> DEFINE j == judegeRead(ctrl, mem)
<1>1. ctrl.iInitFlag = 1
  BY DEF readData, RingOK, RingInv, RingTypes, Control
<1>2. /\ j.ctrl \in Control
      /\ j.ctrl.iInitFlag = 1 /\ j.ctrl.writePos = ctrl.writePos
      /\ Len(queue) > 0 /\ j.ctrl.readPos = at[1]
      /\ \/ k > 0 /\ j.ctrl = ctrl
         \/ k = 0 /\ ctrl.iDir = 1 /\ j.ctrl = ctrl
         \/ k = 0 /\ ctrl.iDir = -1 /\ j.ctrl.iDir = 1 /\ j.ctrl.readPos = StartPos
  BY <1>1, ReadJudged DEF readData
<1>3. 1 \in Index /\ Len(queue) \in Nat
  BY <1>2 DEF Index, RingOK, RingTypes
<1>4. mem[at[1]] = queue[1] /\ HeadSize + HeadAt(mem, at[1]) = Total(queue[1])
  BY <1>3, IndexType DEF RingOK, Holds, HeadAt, Total
<1>5. /\ mem' = Clear(mem, at[1], Total(queue[1]))
      /\ ctrl' = [j.ctrl EXCEPT !.readPos = After(1)]
      /\ result' = <<"read", queue[1]>>
  BY <1>2, <1>4 DEF readData, After
<1> HIDE DEF j
<1>6. /\ ctrl' \in Control /\ ctrl'.iInitFlag = 1
      /\ ctrl'.readPos = After(1) /\ ctrl'.writePos = ctrl.writePos
      /\ ctrl'.iDir = j.ctrl.iDir
  BY <1>2, <1>3, <1>5, IndexType DEF Control
<1>7. queue' = Tail(queue) /\ at' = Tail(at)
  BY <1>2 DEF readData, Rest, RingOK, RingTypes, RingInv
<1>8. ~ (k = 0 /\ ctrl.iDir = 1)
  BY <1>2 DEF Laps
<1> QED BY <1>1, <1>2, <1>5, <1>6, <1>7, <1>8

\* The messages that are left after a read, one place further to the front.
LEMMA TailFacts ==
  ASSUME RingOK, Len(queue) > 0, queue' = Tail(queue), at' = Tail(at)
  PROVE  /\ queue' \in Seq(Messages) /\ at' \in Seq(Cells)
         /\ Len(queue') = Len(queue) - 1 /\ Len(at') = Len(queue')
         /\ Index' = 1 .. Len(queue) - 1
         /\ \A i \in 1 .. Len(queue) - 1 :
                /\ i + 1 \in Index
                /\ queue'[i] = queue[i + 1] /\ at'[i] = at[i + 1]
                /\ After(i)' = After(i + 1)
<1>1. /\ queue \in Seq(Messages) /\ at \in Seq(Cells) /\ Len(at) = Len(queue)
      /\ queue # <<>> /\ at # <<>>
  BY DEF RingOK, RingTypes, RingInv
<1>2. /\ queue' \in Seq(Messages) /\ at' \in Seq(Cells)
      /\ Len(queue') = Len(queue) - 1 /\ Len(at') = Len(queue')
  BY <1>1
<1>3. \A i \in 1 .. Len(queue) - 1 : queue'[i] = queue[i + 1] /\ at'[i] = at[i + 1]
  BY <1>1
<1> QED BY <1>1, <1>2, <1>3 DEF Index, After

\* A read leaves the rest of the messages in their laps.
LEMMA ReadKeepsLaps ==
  ASSUME RingOK, NEW p \in Procs, readData(p), NEW k \in 0 .. Len(queue), Laps(k)
  PROVE  \E l \in 0 .. Len(queue') : Laps(l)'
<1>1. /\ ctrl.iInitFlag = 1 /\ Len(queue) > 0
      /\ queue' = Tail(queue) /\ at' = Tail(at)
      /\ ctrl'.readPos = After(1) /\ ctrl'.writePos = ctrl.writePos
      /\ \/ k > 0 /\ ctrl'.iDir = ctrl.iDir
         \/ k = 0 /\ ctrl.iDir = -1 /\ ctrl'.iDir = 1
  BY ReadFacts
<1>2. /\ Len(queue') = Len(queue) - 1
      /\ Index' = 1 .. Len(queue) - 1
      /\ \A i \in 1 .. Len(queue) - 1 : /\ i + 1 \in Index
                                        /\ at'[i] = at[i + 1]
                                        /\ After(i)' = After(i + 1)
  BY <1>1, TailFacts
<1>3. Len(queue) \in Nat /\ 1 \in Index
  BY <1>1 DEF RingOK, RingTypes, Index
<1>4. /\ ctrl.readPos \in Nat /\ ctrl.writePos \in Nat /\ ctrl.writePos <= EndPos
      /\ ctrl.iDir = 1 \/ ctrl.iDir = -1
      /\ EndPos \in Nat /\ StartPos \in Nat
  BY <1>1, DirDecides, PosAssumption
<1>5. \A i \in Index : at[i] \in Nat /\ After(i) \in Nat /\ at[i] < After(i)
  BY IndexType, PosAssumption
<1>6. PICK l \in 0 .. Len(queue) - 1 : /\ k > 0 => l = k - 1
                                       /\ k = 0 => l = Len(queue) - 1
  <2>1. CASE k > 0
    BY <1>3, <2>1, k - 1 \in 0 .. Len(queue) - 1
  <2>2. CASE k = 0
    BY <1>1, <1>3, <2>2, Len(queue) - 1 \in 0 .. Len(queue) - 1
  <2> QED BY <2>1, <2>2
<1>7. l \in 0 .. Len(queue')
  BY <1>2
<1>8. /\ k \in Int /\ l \in Int /\ 0 <= k /\ k <= Len(queue)
      /\ (k > 0 /\ l = k - 1) \/ (k = 0 /\ l = Len(queue) - 1)
  BY <1>3, <1>6
<1>9. (ctrl.iDir = 1 => /\ l = Len(queue)
                        /\ ctrl.readPos <= ctrl.writePos
                        /\ l = 0 => ctrl.readPos = ctrl.writePos
                        /\ l > 0 => After(l) = ctrl.writePos)'
  <2> SUFFICES ASSUME ctrl'.iDir = 1
               PROVE  /\ l = Len(queue')
                      /\ ctrl'.readPos <= ctrl'.writePos
                      /\ l = 0 => ctrl'.readPos = ctrl'.writePos
                      /\ l > 0 => After(l)' = ctrl'.writePos
    OBVIOUS
  <2>1. l = Len(queue) - 1
    BY <1>1, <1>3, <1>8 DEF Laps
  <2>2. After(Len(queue)) = ctrl.writePos
    BY <1>1, <1>3 DEF Laps
  <2>3. After(1) <= ctrl.writePos
    BY <1>1, <1>3 DEF Laps
  <2> QED BY <1>1, <1>2, <1>3, <2>1, <2>2, <2>3
<1>10. (ctrl.iDir = -1 => /\ ctrl.writePos <= ctrl.readPos
                          /\ l = Len(queue) => ctrl.writePos = StartPos
                          /\ l < Len(queue) => After(Len(queue)) = ctrl.writePos)'
  <2> SUFFICES ASSUME ctrl'.iDir = -1
               PROVE  /\ ctrl'.writePos <= ctrl'.readPos
                      /\ l = Len(queue') => ctrl'.writePos = StartPos
                      /\ l < Len(queue') => After(Len(queue))' = ctrl'.writePos
    OBVIOUS
  <2>1. k > 0 /\ ctrl.iDir = -1 /\ l = k - 1
    BY <1>1, <1>8
  <2>2. /\ at[1] = ctrl.readPos /\ ctrl.writePos <= ctrl.readPos
        /\ k = Len(queue) => ctrl.writePos = StartPos
        /\ k < Len(queue) => After(Len(queue)) = ctrl.writePos
    BY <2>1 DEF Laps
  <2>3. at[1] \in Nat /\ After(1) \in Nat /\ at[1] < After(1)
    BY <1>3, <1>5, Zenon
  <2>4. ctrl'.writePos <= ctrl'.readPos
    BY <1>1, <1>4, <2>2, <2>3
  <2>5. l = Len(queue') => k = Len(queue)
    BY <1>2, <1>3, <1>8, <2>1
  <2>6. ASSUME l < Len(queue') PROVE After(Len(queue))' = ctrl'.writePos
    <3>1. k < Len(queue) /\ 0 < Len(queue')
      BY <1>2, <1>3, <1>8, <2>1, <2>6
    <3>2. PICK last \in 1 .. Len(queue) - 1 : last = Len(queue') /\ last + 1 = Len(queue)
      BY <1>2, <1>3, <3>1
    <3>3. After(last)' = After(last + 1)
      BY <1>2, <3>2, Zenon
    <3>4. After(Len(queue))' = After(last)'
      BY <3>2
    <3> QED BY <1>1, <2>2, <3>1, <3>2, <3>3, <3>4
  <2> QED BY <1>1, <2>2, <2>4, <2>5, <2>6
<1>11. (l > 0 => at[1] = ctrl.readPos)'
  <2> SUFFICES ASSUME l > 0 PROVE at'[1] = After(1)
    BY <1>1
  <2>1. 1 # k /\ 1 < Len(queue)
    BY <1>3, <1>8
  <2> QED BY <1>2, <1>3, <2>1 DEF Laps
<1>12. (l < Len(queue) => at[l + 1] = StartPos)'
  <2> SUFFICES ASSUME l < Len(queue) - 1 PROVE at'[l + 1] = StartPos
    BY <1>2, <1>3
  <2>1. k > 0 /\ l = k - 1 /\ k < Len(queue)
    BY <1>3, <1>8
  <2> QED BY <1>2, <1>3, <2>1 DEF Laps
<1>13. (\A i \in Index : i # l /\ i < Len(queue) => at[i + 1] = After(i))'
  <2> SUFFICES ASSUME NEW i \in 1 .. Len(queue) - 1, i # l, i < Len(queue) - 1
               PROVE  at'[i + 1] = After(i)'
    BY <1>2, <1>3
  <2>1. i + 1 \in Index /\ i + 1 # k /\ i + 1 < Len(queue)
    BY <1>2, <1>3, <1>8
  <2>2. at[(i + 1) + 1] = After(i + 1)
    BY <2>1 DEF Laps
  <2>3. i + 1 \in 1 .. Len(queue) - 1
    BY <1>3, <2>1
  <2> QED BY <1>2, <2>2, <2>3
<1>14. (\A i \in Index : i <= l => ctrl.readPos <= at[i] /\ After(i) <= EndPos)'
  <2> SUFFICES ASSUME NEW i \in 1 .. Len(queue) - 1, i <= l
               PROVE  After(1) <= at[i + 1] /\ After(i + 1) <= EndPos
    BY <1>1, <1>2
  <2>1. i + 1 \in Index
    BY <1>2
  <2>2. i + 1 \in Index /\ 1 < i + 1
    BY <1>3, <2>1
  <2>3. CASE k > 0
    <3>1. i + 1 <= k
      BY <1>8, <2>3
    <3> QED BY <1>3, <2>2, <3>1 DEF Laps
  <2>4. CASE k = 0
    <3>1. After(1) <= at[i + 1]
      BY <1>3, <2>2, <2>4 DEF Laps
    <3>2. After(i + 1) <= ctrl.writePos
      BY <2>2, <2>4 DEF Laps
    <3> QED BY <1>4, <1>5, <2>2, <3>1, <3>2
  <2> QED BY <2>3, <2>4
<1>15. (\A i \in Index : i <= l /\ ctrl.iDir = 1 => After(i) <= ctrl.writePos)'
  <2> SUFFICES ASSUME NEW i \in 1 .. Len(queue) - 1, i <= l, ctrl'.iDir = 1
               PROVE  After(i + 1) <= ctrl.writePos
    BY <1>1, <1>2
  <2>1. i + 1 \in Index
    BY <1>2, <1>3
  <2> QED BY <1>1, <1>8, <2>1 DEF Laps
<1>16. (\A i \in Index : i > l => StartPos <= at[i] /\ After(i) <= ctrl.writePos)'
  <2> SUFFICES ASSUME NEW i \in 1 .. Len(queue) - 1, i > l
               PROVE  StartPos <= at[i + 1] /\ After(i + 1) <= ctrl.writePos
    BY <1>1, <1>2
  <2>1. i + 1 \in Index
    BY <1>2
  <2>2. i + 1 \in Index /\ i + 1 > k
    BY <1>3, <1>8, <2>1
  <2> QED BY <2>2 DEF Laps
<1>17. (\A i, n \in Index : i < n /\ (n <= l \/ l < i) => After(i) <= at[n])'
  <2> SUFFICES ASSUME NEW i \in 1 .. Len(queue) - 1, NEW n \in 1 .. Len(queue) - 1,
                      i < n, n <= l \/ l < i
               PROVE  After(i + 1) <= at[n + 1]
    BY <1>2, <1>3
  <2>1. i + 1 \in Index /\ n + 1 \in Index
    BY <1>2
  <2>2. i + 1 \in Index /\ n + 1 \in Index /\ i + 1 < n + 1
    BY <1>3, <2>1
  <2>3. n + 1 <= k \/ k < i + 1
    BY <1>3, <1>8
  <2> QED BY <2>2, <2>3 DEF Laps
<1>18. Laps(l)'
  BY <1>7, <1>9, <1>10, <1>11, <1>12, <1>13, <1>14, <1>15, <1>16, <1>17 DEF Laps
<1> QED BY <1>7, <1>18

\* Messages in transit lie in the segment and apart from each other.
LEMMA Apart ==
  ASSUME RingOK
  PROVE  /\ \A i \in Index : StartPos <= at[i] /\ After(i) <= EndPos
         /\ \A i, n \in Index : i < n => After(i) <= at[n] \/ After(n) <= at[i]
<1>1. CASE ctrl.iInitFlag = 0
  BY <1>1 DEF RingOK, RingInv, Index
<1>2. CASE ctrl.iInitFlag = 1
  <2>1. PICK k \in 0 .. Len(queue) : Laps(k)
    BY <1>2 DEF RingOK, RingInv
  <2>2. Len(queue) \in Nat /\ k \in Int
    BY <2>1 DEF RingOK, RingTypes
  <2>3. k < Len(queue) => ctrl.iDir = -1
    BY <1>2, <2>1, <2>2, DirDecides DEF Laps
  <2>4. ASSUME NEW i \in Index
        PROVE  StartPos <= at[i] /\ After(i) <= EndPos
    <3>1. i \in Int
      BY <2>2 DEF Index
    <3>2. CASE i <= k
      BY <1>2, <2>1, <3>2, DirDecides, IndexType, PosAssumption DEF Laps
    <3>3. CASE i > k
      BY <1>2, <2>1, <3>3, DirDecides, IndexType, PosAssumption DEF Laps
    <3> QED BY <2>2, <3>1, <3>2, <3>3
  <2>5. ASSUME NEW i \in Index, NEW n \in Index, i < n
        PROVE  After(i) <= at[n] \/ After(n) <= at[i]
    <3>1. i \in Int /\ n \in Int /\ n <= Len(queue)
      BY <2>2 DEF Index
    <3>2. CASE n <= k \/ k < i
      BY <2>1, <2>5, <3>2 DEF Laps
    <3>3. CASE i <= k /\ k < n
      <4>1. ctrl.readPos <= at[i] /\ After(n) <= ctrl.writePos
        BY <2>1, <3>3 DEF Laps
      <4>2. ctrl.writePos <= ctrl.readPos
        BY <1>2, <2>2, <2>3, <3>1, <3>3, DirDecides
      <4> QED BY <1>2, <4>1, <4>2, IndexType, DirDecides
    <3> QED BY <2>2, <3>1, <3>2, <3>3
  <2> QED BY <2>4, <2>5
<1> QED BY <1>1, <1>2 DEF RingOK, RingTypes, Control

\* A read clears its message and no other.
LEMMA ReadKeepsHolds ==
  ASSUME RingOK, NEW p \in Procs, readData(p)
  PROVE  Holds'
<1>1. PICK k \in 0 .. Len(queue) : Laps(k)
  BY DEF readData, RingOK, RingInv, RingTypes, Control
<1>2. /\ Len(queue) > 0 /\ mem' = Clear(mem, at[1], Total(queue[1]))
      /\ queue' = Tail(queue) /\ at' = Tail(at)
  BY <1>1, ReadFacts
<1>3. Len(queue) \in Nat /\ 1 \in Index
  BY <1>2 DEF RingOK, RingTypes, Index
<1>4. /\ Index' = 1 .. Len(queue) - 1
      /\ \A i \in 1 .. Len(queue) - 1 :
             /\ i + 1 \in Index
             /\ queue'[i] = queue[i + 1] /\ at'[i] = at[i + 1]
             /\ After(i)' = After(i + 1)
  BY <1>2, TailFacts
<1>5. \A a \in Cells : mem'[a] = IF at[1] <= a /\ a < After(1) THEN Zero ELSE mem[a]
  <2> SUFFICES ASSUME NEW a \in Cells
               PROVE  a \in at[1] .. at[1] + Total(queue[1]) - 1 <=> at[1] <= a /\ a < After(1)
    BY <1>2 DEF Clear
  <2>1. a \in Int /\ at[1] \in Nat /\ After(1) \in Nat /\ Total(queue[1]) \in Nat
        /\ After(1) = at[1] + Total(queue[1])
    BY <1>3, IndexType, TotalType, PosAssumption DEF Cells, After
  <2> QED BY <2>1
<1>6. \A i \in Index : 1 < i => After(1) <= at[i] \/ After(i) <= at[1]
  BY <1>3, Apart
<1>7. ASSUME NEW i \in 1 .. Len(queue) - 1
      PROVE  mem'[at'[i]] = queue'[i]
  <2>1. i + 1 \in Index
    BY <1>4
  <2>2. After(1) <= at[i + 1] \/ After(i + 1) <= at[1]
    BY <1>3, <1>6, <2>1
  <2>3. at[i + 1] \in Cells /\ ~ (at[1] <= at[i + 1] /\ at[i + 1] < After(1))
    BY <1>3, <2>1, <2>2, IndexType, PosAssumption
  <2> QED BY <1>4, <1>5, <2>1, <2>3 DEF RingOK, Holds
<1>8. ASSUME NEW a \in Cells
      PROVE  mem'[a] # Zero <=> \E i \in 1 .. Len(queue) - 1 : at'[i] <= a /\ a < After(i)'
  <2>1. a \in Int
    BY PosAssumption DEF Cells
  <2>2. CASE at[1] <= a /\ a < After(1)
    <3> SUFFICES ASSUME NEW i \in 1 .. Len(queue) - 1
                 PROVE  ~ (at[i + 1] <= a /\ a < After(i + 1))
      BY <1>4, <1>5, <2>2
    <3>1. i + 1 \in Index
      BY <1>4
    <3>2. After(1) <= at[i + 1] \/ After(i + 1) <= at[1]
      BY <1>3, <1>6, <3>1
    <3> QED BY <1>3, <2>1, <2>2, <3>1, <3>2, IndexType
  <2>3. CASE ~ (at[1] <= a /\ a < After(1))
    <3>1. mem'[a] # Zero <=> \E i \in Index : at[i] <= a /\ a < After(i)
      BY <1>5, <2>3 DEF RingOK, Holds
    <3>2. ASSUME NEW i \in Index, at[i] <= a, a < After(i)
          PROVE  \E n \in 1 .. Len(queue) - 1 : at'[n] <= a /\ a < After(n)'
      <4>1. i # 1
        BY <2>3, <3>2
      <4>2. i - 1 \in 1 .. Len(queue) - 1 /\ i = (i - 1) + 1
        BY <1>3, <4>1 DEF Index
      <4>3. at'[i - 1] = at[i] /\ After(i - 1)' = After(i)
        BY <1>4, <4>2
      <4> QED BY <3>2, <4>2, <4>3
    <3>3. ASSUME NEW i \in 1 .. Len(queue) - 1, at'[i] <= a, a < After(i)'
          PROVE  \E n \in Index : at[n] <= a /\ a < After(n)
      BY <1>4, <3>3
    <3> QED BY <3>1, <3>2, <3>3
  <2> QED BY <2>2, <2>3
<1> QED BY <1>4, <1>7, <1>8 DEF Holds

\* What a write does: it copies the message to free cells behind the writer, in the
\* writer's lap or, after a wrap, in the next one.
LEMMA WriteFacts ==
  ASSUME RingOK, NEW p \in Procs, NEW m \in Messages, writeData(p, m),
         NEW k \in 0 .. Len(queue), Laps(k)
  PROVE  \E w \in Cells :
            /\ w + Total(m) <= EndPos
            /\ \A i \in Index : After(i) <= w \/ w + Total(m) <= at[i]
            /\ mem' = CopyIn(mem, w, m)
            /\ queue' = Append(queue, m) /\ at' = Append(at, w)
            /\ ctrl' \in Control /\ ctrl'.iInitFlag = 1
            /\ ctrl'.writePos = w + Total(m) /\ ctrl'.readPos = ctrl.readPos
            /\ \/ ctrl.iDir = 1 /\ ctrl'.iDir = 1 /\ w = ctrl.writePos
               \/ /\ ctrl.iDir = 1 /\ ctrl'.iDir = -1 /\ w = StartPos
                  /\ w + Total(m) <= ctrl.readPos
               \/ /\ ctrl.iDir = -1 /\ ctrl'.iDir = -1 /\ w = ctrl.writePos
                  /\ w + Total(m) <= ctrl.readPos
<1> DEFINE j == judegeWrite(ctrl, Total(m))
           w == j.ctrl.writePos
<1>1. ctrl.iInitFlag = 1
  BY DEF writeData, RingOK, RingInv, RingTypes, Control
<1>2. /\ j.ok /\ j.ctrl \in Control
      /\ j.ctrl.iInitFlag = 1 /\ j.ctrl.readPos = ctrl.readPos
      /\ \/ ctrl.iDir = 1 /\ j.ctrl = ctrl /\ ctrl.writePos + Total(m) <= EndPos
         \/ /\ ctrl.iDir = 1 /\ j.ctrl.iDir = -1 /\ j.ctrl.writePos = StartPos
            /\ StartPos + Total(m) <= ctrl.readPos
         \/ /\ ctrl.iDir = -1 /\ j.ctrl = ctrl
            /\ ctrl.writePos + Total(m) <= ctrl.readPos
  BY <1>1, WriteJudged, DirDecides DEF writeData
<1>3. /\ mem' = CopyIn(mem, w, m) /\ queue' = Append(queue, m) /\ at' = Append(at, w)
      /\ ctrl' = [j.ctrl EXCEPT !.writePos = w + Total(m)]
  BY DEF writeData
<1> HIDE DEF j
<1>4. w \in Nat
  BY <1>2 DEF Control
<1>5. /\ ctrl' \in Control /\ ctrl'.iInitFlag = 1
      /\ ctrl'.writePos = w + Total(m) /\ ctrl'.readPos = ctrl.readPos
      /\ ctrl'.iDir = j.ctrl.iDir
  <2> DEFINE c == j.ctrl
             n == w + Total(m)
  <2>1. n \in Nat
    BY <1>4, TotalType
  <2>2. c \in Control /\ c.iInitFlag = 1 /\ c.readPos = ctrl.readPos /\ ctrl' = [c EXCEPT !.writePos = n]
    BY <1>2, <1>3, Zenon
  <2> HIDE DEF c, n
  <2>3. /\ ctrl' \in Control /\ ctrl'.iInitFlag = 1 /\ ctrl'.writePos = n /\ ctrl'.readPos = ctrl.readPos
        /\ ctrl'.iDir = c.iDir
    BY <2>1, <2>2, HeadMoved
  <2> QED BY <2>3 DEF c, n
<1>6. w \in Cells /\ w + Total(m) <= EndPos
  <2>1. /\ StartPos \in Nat /\ EndPos \in Nat /\ HeadSize \in Nat /\ Total(m) \in Nat /\ HeadSize < Total(m)
        /\ StartPos <= ctrl.writePos /\ ctrl.readPos <= EndPos
    BY <1>1, DirDecides, TotalType, PosAssumption
  <2>2. ctrl.readPos \in Nat
    BY <1>1, DirDecides
  <2>3. \/ w = ctrl.writePos /\ w + Total(m) <= EndPos
        \/ w = StartPos /\ w + Total(m) <= ctrl.readPos
        \/ w = ctrl.writePos /\ w + Total(m) <= ctrl.readPos
    BY <1>2, Zenon
  <2>4. StartPos <= w /\ w + Total(m) <= EndPos
    BY <1>4, <2>1, <2>2, <2>3
  <2> QED BY <1>4, <2>1, <2>4 DEF Cells
<1>7. ASSUME NEW i \in Index
      PROVE  After(i) <= w \/ w + Total(m) <= at[i]
  <2>1. /\ i \in Int /\ Len(queue) \in Nat /\ k \in Int
        /\ at[i] \in Nat /\ After(i) \in Nat /\ Total(m) \in Nat
        /\ ctrl.readPos \in Nat /\ ctrl.writePos \in Nat
    BY <1>1, IndexType, TotalType, DirDecides DEF Index, RingOK, RingTypes
  <2>2. CASE ctrl.iDir = 1
    <3>1. i <= k
      BY <2>1, <2>2 DEF Laps, Index
    <3>2. ctrl.readPos <= at[i] /\ After(i) <= ctrl.writePos
      BY <2>2, <3>1 DEF Laps
    <3> QED BY <1>2, <1>4, <2>1, <2>2, <3>2
  <2>3. CASE ctrl.iDir = -1
    <3>1. i <= k => ctrl.readPos <= at[i]
      BY DEF Laps
    <3>2. i > k => After(i) <= ctrl.writePos
      BY DEF Laps
    <3> QED BY <1>2, <1>4, <2>1, <2>3, <3>1, <3>2
  <2> QED BY <1>1, <2>2, <2>3, DirDecides
<1>8. \/ ctrl.iDir = 1 /\ ctrl'.iDir = 1 /\ w = ctrl.writePos
      \/ ctrl.iDir = 1 /\ ctrl'.iDir = -1 /\ w = StartPos /\ w + Total(m) <= ctrl.readPos
      \/ ctrl.iDir = -1 /\ ctrl'.iDir = -1 /\ w = ctrl.writePos /\ w + Total(m) <= ctrl.readPos
  BY <1>2, <1>5
<1> HIDE DEF w
<1> QED BY <1>3, <1>5, <1>6, <1>7, <1>8

\* The messages after a write: the old ones in their places and one more.
LEMMA AppendFacts ==
  ASSUME RingOK, NEW m \in Messages, NEW w \in Cells,
         queue' = Append(queue, m), at' = Append(at, w)
  PROVE  /\ queue' \in Seq(Messages) /\ at' \in Seq(Cells)
         /\ Len(queue') = Len(queue) + 1 /\ Len(at') = Len(queue')
         /\ Index' = 1 .. Len(queue) + 1 /\ Len(queue) \in Nat
         /\ \A i \in Index : queue'[i] = queue[i] /\ at'[i] = at[i] /\ After(i)' = After(i)
         /\ queue'[Len(queue) + 1] = m /\ at'[Len(queue) + 1] = w
         /\ \A i \in {Len(queue) + 1} : After(i)' = w + Total(m)
<1>1. /\ queue \in Seq(Messages) /\ at \in Seq(Cells) /\ Len(at) = Len(queue)
      /\ Len(queue) \in Nat
  BY DEF RingOK, RingTypes, RingInv
<1>2. /\ queue' \in Seq(Messages) /\ at' \in Seq(Cells)
      /\ Len(queue') = Len(queue) + 1 /\ Len(at') = Len(queue')
      /\ queue'[Len(queue) + 1] = m /\ at'[Len(queue) + 1] = w
  BY <1>1
<1>3. \A i \in Index : queue'[i] = queue[i] /\ at'[i] = at[i]
  BY <1>1 DEF Index
<1> QED BY <1>1, <1>2, <1>3 DEF Index, After

\* A write puts its message at the end of the writer's lap.
LEMMA WriteKeepsLaps ==
  ASSUME RingOK, NEW p \in Procs, NEW m \in Messages, writeData(p, m),
         NEW k \in 0 .. Len(queue), Laps(k)
  PROVE  \E l \in 0 .. Len(queue') : Laps(l)'
<1>1. PICK w \in Cells :
            /\ w + Total(m) <= EndPos
            /\ queue' = Append(queue, m) /\ at' = Append(at, w)
            /\ ctrl'.writePos = w + Total(m) /\ ctrl'.readPos = ctrl.readPos
            /\ \/ ctrl.iDir = 1 /\ ctrl'.iDir = 1 /\ w = ctrl.writePos
               \/ /\ ctrl.iDir = 1 /\ ctrl'.iDir = -1 /\ w = StartPos
                  /\ w + Total(m) <= ctrl.readPos
               \/ /\ ctrl.iDir = -1 /\ ctrl'.iDir = -1 /\ w = ctrl.writePos
                  /\ w + Total(m) <= ctrl.readPos
  BY WriteFacts
<1>2. PICK last \in Nat : last = Len(queue) + 1
  BY DEF RingOK, RingTypes
<1>3. /\ Len(queue) \in Nat /\ Len(queue) = last - 1 /\ Len(queue') = last
      /\ Index = 1 .. last - 1 /\ Index' = 1 .. last
      /\ k \in Int /\ 0 <= k /\ k <= last - 1
      /\ at'[last] = w /\ After(last)' = w + Total(m)
  BY <1>1, <1>2, AppendFacts DEF Index
<1>4. \A i \in 1 .. last - 1 : at'[i] = at[i] /\ After(i)' = After(i)
  BY <1>1, <1>3, AppendFacts
<1>5. /\ ctrl.iInitFlag = 1 /\ ctrl.readPos \in Nat /\ ctrl.writePos \in Nat
      /\ ctrl.readPos \in StartPos .. EndPos /\ ctrl.writePos \in StartPos .. EndPos
      /\ ctrl.iDir = 1 => ctrl.readPos <= ctrl.writePos
      /\ ctrl.iDir = -1 => ctrl.writePos <= ctrl.readPos
  <2>1. ctrl.iInitFlag = 1
    BY DEF writeData, RingOK, RingInv, RingTypes, Control
  <2> QED BY <2>1, DirDecides
<1>6. /\ Total(m) \in Nat /\ Total(m) > 0 /\ w \in Nat /\ StartPos <= w
      /\ StartPos \in Nat /\ EndPos \in Nat
  BY TotalType, PosAssumption DEF Cells
<1>7. \A i \in 1 .. last - 1 : at[i] \in Nat /\ After(i) \in Nat
  BY <1>3, IndexType
<1>8. k \in Int /\ 0 <= k /\ k <= last - 1
  BY <1>3
<1>9. ctrl.iDir = 1 => k = last - 1
  BY <1>3 DEF Laps
<1>10. PICK l \in 0 .. last :
         \/ /\ l = last /\ ctrl.iDir = 1 /\ ctrl'.iDir = 1 /\ w = ctrl.writePos
         \/ /\ l = k /\ ctrl.iDir = 1 /\ ctrl'.iDir = -1 /\ w = StartPos
            /\ w + Total(m) <= ctrl.readPos
         \/ /\ l = k /\ ctrl.iDir = -1 /\ ctrl'.iDir = -1 /\ w = ctrl.writePos
            /\ w + Total(m) <= ctrl.readPos
  <2>1. last \in 0 .. last /\ k \in 0 .. last
    BY <1>2, <1>8
  <2>2. CASE ctrl'.iDir = 1
    BY <1>1, <2>1, <2>2
  <2>3. CASE ctrl'.iDir = -1
    BY <1>1, <2>1, <2>3
  <2> QED BY <1>1, <2>2, <2>3
<1>11. l \in Int /\ 0 <= l /\ l <= last /\ l \in 0 .. Len(queue')
  BY <1>3
<1>12. (ctrl.iDir = 1 => /\ l = Len(queue)
                         /\ ctrl.readPos <= ctrl.writePos
                         /\ l = 0 => ctrl.readPos = ctrl.writePos
                         /\ l > 0 => After(l) = ctrl.writePos)'
  BY <1>1, <1>2, <1>3, <1>5, <1>6, <1>10
<1>13. (ctrl.iDir = -1 => /\ ctrl.writePos <= ctrl.readPos
                          /\ l = Len(queue) => ctrl.writePos = StartPos
                          /\ l < Len(queue) => After(Len(queue)) = ctrl.writePos)'
  BY <1>1, <1>3, <1>10
<1>14. (l > 0 => at[1] = ctrl.readPos)'
  <2> SUFFICES ASSUME l > 0 PROVE at'[1] = ctrl.readPos
    BY <1>1
  <2>1. CASE k > 0
    BY <1>3, <1>4, <2>1 DEF Laps
  <2>2. CASE k = 0
    <3>1. last = 1 /\ w = ctrl.writePos /\ ctrl.iDir = 1
      BY <1>2, <1>9, <1>10, <1>11, <1>8, <2>2
    <3> QED BY <1>3, <2>2, <3>1 DEF Laps
  <2> QED BY <1>3, <2>1, <2>2
<1>15. (l < Len(queue) => at[l + 1] = StartPos)'
  <2> SUFFICES ASSUME l < last PROVE at'[l + 1] = StartPos
    BY <1>3
  <2>1. CASE k < last - 1
    BY <1>3, <1>4, <1>9, <1>10, <2>1 DEF Laps
  <2>2. CASE k = last - 1
    <3>1. l = k /\ l + 1 = last
      BY <1>3, <1>10, <2>2
    <3>2. w = StartPos
      BY <1>3, <1>10, <2>2, <3>1 DEF Laps
    <3> QED BY <1>3, <3>1, <3>2
  <2> QED BY <1>3, <2>1, <2>2
<1>16. (\A i \in Index : i # l /\ i < Len(queue) => at[i + 1] = After(i))'
  <2> SUFFICES ASSUME NEW i \in 1 .. last - 1, i # l
               PROVE  at'[i + 1] = After(i)
    BY <1>3, <1>4
  <2>1. CASE i < last - 1
    <3>1. i # k
      BY <1>9, <1>10, <2>1
    <3>2. at[i + 1] = After(i)
      BY <1>3, <2>1, <3>1 DEF Laps
    <3>3. i + 1 \in 1 .. last - 1
      BY <1>2, <2>1
    <3> QED BY <1>4, <3>2, <3>3
  <2>2. CASE i = last - 1
    <3>1. i + 1 = last
      BY <1>2, <2>2
    <3>2. After(i) = ctrl.writePos /\ w = ctrl.writePos
      BY <1>3, <1>9, <1>10, <2>2 DEF Laps
    <3> QED BY <1>3, <3>1, <3>2
  <2> QED BY <1>2, <2>1, <2>2
<1>17. (\A i \in Index : i <= l => ctrl.readPos <= at[i] /\ After(i) <= EndPos)'
  <2> SUFFICES ASSUME NEW i \in 1 .. last, i <= l
               PROVE  ctrl.readPos <= at'[i] /\ After(i)' <= EndPos
    BY <1>1, <1>3
  <2>1. CASE i < last
    <3>1. i \in 1 .. last - 1 /\ i <= k
      BY <1>2, <1>9, <1>10, <1>11, <1>8, <2>1
    <3> QED BY <1>3, <1>4, <3>1 DEF Laps
  <2>2. CASE i = last
    <3>1. ctrl.iDir = 1 /\ w = ctrl.writePos
      BY <1>3, <1>10, <2>2
    <3> QED BY <1>1, <1>3, <1>5, <2>2, <3>1
  <2> QED BY <1>2, <2>1, <2>2
<1>18. (\A i \in Index : i <= l /\ ctrl.iDir = 1 => After(i) <= ctrl.writePos)'
  <2> SUFFICES ASSUME NEW i \in 1 .. last, ctrl'.iDir = 1
               PROVE  After(i)' <= w + Total(m)
    BY <1>1, <1>3
  <2>1. CASE i < last
    <3>1. i \in 1 .. last - 1 /\ i <= k
      BY <1>2, <1>9, <1>10, <1>11, <1>8, <2>1
    <3>2. After(i) <= ctrl.writePos /\ w = ctrl.writePos
      BY <1>3, <1>10, <3>1 DEF Laps
    <3> QED BY <1>4, <1>6, <1>7, <3>1, <3>2
  <2>2. CASE i = last
    BY <1>3, <1>6, <2>2
  <2> QED BY <1>2, <2>1, <2>2
<1>19. (\A i \in Index : i > l => StartPos <= at[i] /\ After(i) <= ctrl.writePos)'
  <2> SUFFICES ASSUME NEW i \in 1 .. last, i > l
               PROVE  StartPos <= at'[i] /\ After(i)' <= w + Total(m)
    BY <1>1, <1>3
  <2>1. CASE i < last
    <3>1. i \in 1 .. last - 1 /\ i > k /\ w = ctrl.writePos
      BY <1>2, <1>9, <1>10, <1>11, <1>8, <2>1
    <3>2. StartPos <= at[i] /\ After(i) <= ctrl.writePos
      BY <1>3, <3>1 DEF Laps
    <3> QED BY <1>4, <1>6, <1>7, <3>1, <3>2
  <2>2. CASE i = last
    BY <1>3, <1>6, <2>2
  <2> QED BY <1>2, <2>1, <2>2
<1>20. (\A i, n \in Index : i < n /\ (n <= l \/ l < i) => After(i) <= at[n])'
  <2> SUFFICES ASSUME NEW i \in 1 .. last, NEW n \in 1 .. last, i < n, n <= l \/ l < i
               PROVE  After(i)' <= at'[n]
    BY <1>3
  <2>1. i \in 1 .. last - 1
    BY <1>2
  <2>2. CASE n < last
    <3>1. n \in 1 .. last - 1 /\ (n <= k \/ k < i)
      BY <1>2, <1>9, <1>10, <1>11, <1>8, <2>2
    <3> QED BY <1>3, <1>4, <2>1, <3>1 DEF Laps
  <2>3. CASE n = last
    <3>1. w = ctrl.writePos /\ ((i <= k /\ ctrl.iDir = 1) \/ i > k)
      BY <1>2, <1>9, <1>10, <1>11, <1>8, <2>1, <2>3
    <3>2. After(i) <= ctrl.writePos
      BY <1>3, <2>1, <3>1 DEF Laps
    <3> QED BY <1>3, <1>4, <2>1, <2>3, <3>1, <3>2
  <2> QED BY <1>2, <2>2, <2>3
<1>21. Laps(l)'
  BY <1>11, <1>12, <1>13, <1>14, <1>15, <1>16, <1>17, <1>18, <1>19, <1>20 DEF Laps
<1> QED BY <1>11, <1>21

\* A write copies its message over cells that are clear, and over no other.
LEMMA WriteKeepsHolds ==
  ASSUME RingOK, NEW p \in Procs, NEW m \in Messages, writeData(p, m)
  PROVE  Holds'
<1>1. PICK k \in 0 .. Len(queue) : Laps(k)
  BY DEF writeData, RingOK, RingInv, RingTypes, Control
<1>2. PICK w \in Cells :
            /\ w + Total(m) <= EndPos
            /\ \A i \in Index : After(i) <= w \/ w + Total(m) <= at[i]
            /\ mem' = CopyIn(mem, w, m)
            /\ queue' = Append(queue, m) /\ at' = Append(at, w)
  BY <1>1, WriteFacts
<1>3. PICK last \in Nat : last = Len(queue) + 1
  BY DEF RingOK, RingTypes
<1>4. /\ Index = 1 .. last - 1 /\ Index' = 1 .. last
      /\ queue'[last] = m /\ at'[last] = w /\ After(last)' = w + Total(m)
      /\ \A i \in Index : queue'[i] = queue[i] /\ at'[i] = at[i] /\ After(i)' = After(i)
  BY <1>2, <1>3, AppendFacts DEF Index
<1>5. w \in Nat /\ Total(m) \in Nat /\ Total(m) > 0
  BY TotalType, PosAssumption DEF Cells
<1>6. \A a \in Cells : mem'[a] = IF a = w THEN m
                                 ELSE IF w < a /\ a < w + Total(m) THEN Body ELSE mem[a]
  <2> SUFFICES ASSUME NEW a \in Cells, a # w
               PROVE  a \in w .. w + Total(m) - 1 <=> w < a /\ a < w + Total(m)
    BY <1>2 DEF CopyIn
  <2>1. a \in Int
    BY PosAssumption DEF Cells
  <2> QED BY <1>5, <2>1
<1>7. ASSUME NEW i \in Index
      PROVE  mem'[at'[i]] = queue'[i]
  <2>1. at[i] \in Cells /\ at[i] \in Nat /\ After(i) \in Nat /\ at[i] < After(i)
    BY IndexType, PosAssumption
  <2>2. at[i] # w /\ ~ (w < at[i] /\ at[i] < w + Total(m))
    BY <1>2, <1>5, <2>1
  <2> QED BY <1>4, <1>6, <2>1, <2>2 DEF RingOK, Holds
<1>8. mem'[at'[last]] = queue'[last]
  BY <1>4, <1>6
<1>9. ASSUME NEW a \in Cells
      PROVE  mem'[a] # Zero <=> \E i \in 1 .. last : at'[i] <= a /\ a < After(i)'
  <2>1. a \in Int /\ last \in 1 .. last
    BY <1>3, PosAssumption DEF Cells, RingOK, RingTypes
  <2>2. CASE w <= a /\ a < w + Total(m)
    <3>1. mem'[a] # Zero
      BY <1>5, <1>6, <2>1, <2>2, CellAssumption
    <3>2. at'[last] <= a /\ a < After(last)'
      BY <1>4, <2>2
    <3> QED BY <2>1, <3>1, <3>2
  <2>3. CASE ~ (w <= a /\ a < w + Total(m))
    <3>1. mem'[a] # Zero <=> \E i \in Index : at[i] <= a /\ a < After(i)
      BY <1>5, <1>6, <2>1, <2>3 DEF RingOK, Holds
    <3>2. ASSUME NEW i \in Index, at[i] <= a, a < After(i)
          PROVE  \E n \in 1 .. last : at'[n] <= a /\ a < After(n)'
      <4>1. i \in 1 .. last
        BY <1>3, <1>4
      <4> QED BY <1>4, <3>2, <4>1
    <3>3. ASSUME NEW i \in 1 .. last, at'[i] <= a, a < After(i)'
          PROVE  \E n \in Index : at[n] <= a /\ a < After(n)
      <4>1. i # last
        BY <1>4, <2>3, <3>3
      <4>2. i \in Index
        BY <1>3, <1>4, <4>1
      <4> QED BY <1>4, <3>3, <4>2
    <3> QED BY <3>1, <3>2, <3>3
  <2> QED BY <2>2, <2>3
<1>10. \A i \in 1 .. last : mem'[at'[i]] = queue'[i]
  <2> TAKE i \in 1 .. last
  <2>1. i = last \/ i \in Index
    BY <1>3, <1>4
  <2> QED BY <1>7, <1>8, <2>1
<1> QED BY <1>4, <1>9, <1>10 DEF Holds

\* A refused write may send the writer to its next lap; the messages stay.
LEMMA RefusedWriteKeepsRing ==
  ASSUME RingOK, NEW p \in Procs, NEW m \in Messages, writeDataRefused(p, m)
  PROVE  /\ ctrl' \in Control /\ ctrl'.iInitFlag = 1 /\ RingInv'
<1> DEFINE j == judegeWrite(ctrl, Total(m))
<1>1. ctrl.iInitFlag = 1
  BY DEF writeDataRefused, RingOK, RingInv, RingTypes, Control
<1>2. PICK k \in 0 .. Len(queue) : Laps(k)
  BY <1>1 DEF RingOK, RingInv
<1>3. /\ j.ctrl \in Control
      /\ j.ctrl.iInitFlag = 1 /\ j.ctrl.readPos = ctrl.readPos
      /\ \/ ctrl.iDir = 1 /\ j.ctrl.iDir = -1 /\ j.ctrl.writePos = StartPos
         \/ ctrl.iDir = -1 /\ j.ctrl = ctrl
  BY <1>1, WriteJudged, DirDecides DEF writeDataRefused
<1>4. ctrl' = j.ctrl /\ UNCHANGED <<queue, at>>
  BY DEF writeDataRefused
<1>5. Index' = Index /\ \A i \in Index : After(i)' = After(i)
  BY <1>4 DEF Index, After
<1> HIDE DEF j
<1>6. /\ ctrl'.iDir \in {-1, 1}
      /\ ctrl'.readPos \in StartPos .. EndPos /\ ctrl'.writePos \in StartPos .. EndPos
  BY <1>1, <1>3, <1>4, DirDecides, PosAssumption
<1>7. Laps(k)'
  <2>1. CASE ctrl' = ctrl
    BY <1>2, <1>4, <2>1 DEF Laps, Index, After
  <2>2. CASE ctrl.iDir = 1 /\ ctrl'.iDir = -1 /\ ctrl'.writePos = StartPos
    <3>1. k = Len(queue)
      BY <1>2, <2>2 DEF Laps
    <3>2. StartPos <= ctrl.readPos
      BY <1>1, DirDecides, PosAssumption
    <3>3. ctrl'.readPos = ctrl.readPos
      BY <1>3, <1>4
    <3>4. Len(queue) \in Nat
      BY DEF RingOK, RingTypes
    <3>5. \A i \in Index : i <= k
      BY <3>1, <3>4 DEF Index
    <3>6. /\ k > 0 => at[1] = ctrl.readPos
          /\ \A i \in Index : i # k /\ i < Len(queue) => at[i + 1] = After(i)
          /\ \A i \in Index : ctrl.readPos <= at[i] /\ After(i) <= EndPos
          /\ \A i, n \in Index : i < n => After(i) <= at[n]
      BY <1>2, <3>5 DEF Laps
    <3>7. at' = at /\ Len(queue') = Len(queue)
      BY <1>4
    <3>8. k = 0 \/ k > 0
      BY <1>2, <3>4
    <3>9. (\A i, n \in Index : i < n /\ (n <= k \/ k < i) => After(i) <= at[n])'
      BY <1>5, <3>6, <3>7
    <3>10. (\A i \in Index : i # k /\ i < Len(queue) => at[i + 1] = After(i))'
      BY <1>5, <3>6, <3>7
    <3>11. /\ (\A i \in Index : i <= k => ctrl.readPos <= at[i] /\ After(i) <= EndPos)'
           /\ (\A i \in Index : i > k => StartPos <= at[i] /\ After(i) <= ctrl.writePos)'
      BY <1>5, <3>1, <3>3, <3>4, <3>5, <3>6, <3>7 DEF Index
    <3> QED BY <1>2, <2>2, <3>1, <3>2, <3>3, <3>4, <3>6, <3>7, <3>9, <3>10, <3>11 DEF Laps
  <2> QED BY <1>3, <1>4, <2>1, <2>2
<1> QED BY <1>2, <1>3, <1>4, <1>6, <1>7 DEF RingInv, RingOK

\* A refused read, of an empty ring, may send the reader to its next lap.
LEMMA RefusedReadKeepsRing ==
  ASSUME RingOK, NEW p \in Procs, readDataRefused(p)
  PROVE  queue = <<>> /\ ctrl' \in Control /\ ctrl'.iInitFlag = 1 /\ RingInv'
<1> DEFINE j == judegeRead(ctrl, mem)
<1>1. ctrl.iInitFlag = 1
  BY DEF readDataRefused, RingOK, RingInv, RingTypes, Control
<1>2. PICK k \in 0 .. Len(queue) : Laps(k)
  BY <1>1 DEF RingOK, RingInv
<1>3. Len(queue) \in Nat /\ queue \in Seq(Messages)
  BY DEF RingOK, RingTypes
<1>4. ~ (Len(queue) > 0)
  BY <1>1, <1>2, ReadJudged DEF readDataRefused
<1>5. queue = <<>> /\ Len(queue) = 0 /\ k = 0
  BY <1>2, <1>3, <1>4
<1>6. /\ j.ctrl \in Control
      /\ j.ctrl.iInitFlag = 1 /\ j.ctrl.writePos = ctrl.writePos
      /\ \/ ctrl.iDir = 1 /\ j.ctrl = ctrl
         \/ ctrl.iDir = -1 /\ j.ctrl.iDir = 1 /\ j.ctrl.readPos = StartPos
  BY <1>1, <1>2, <1>5, ReadJudged
<1>7. ctrl' = j.ctrl /\ UNCHANGED <<queue, at>>
  BY DEF readDataRefused
<1> HIDE DEF j
<1>8. /\ ctrl'.iDir \in {-1, 1}
      /\ ctrl'.readPos \in StartPos .. EndPos /\ ctrl'.writePos \in StartPos .. EndPos
  BY <1>1, <1>6, <1>7, DirDecides, PosAssumption
<1>9. Laps(0)'
  <2>1. Index' = {} /\ Len(queue') = 0
    BY <1>5, <1>7 DEF Index
  <2>2. CASE ctrl' = ctrl
    BY <1>2, <1>5, <2>1, <2>2 DEF Laps
  <2>3. CASE ctrl.iDir = -1 /\ ctrl'.iDir = 1 /\ ctrl'.readPos = StartPos
    <3>1. ctrl'.writePos = StartPos
      BY <1>2, <1>5, <1>6, <1>7, <2>3 DEF Laps
    <3> QED BY <2>1, <2>3, <3>1, PosAssumption DEF Laps
  <2> QED BY <1>6, <1>7, <2>2, <2>3
<1> QED BY <1>3, <1>5, <1>6, <1>7, <1>8, <1>9 DEF RingInv, RingOK

\* A write keeps the ring sound.
LEMMA WriteStep ==
  ASSUME RingOK, NEW p \in Procs, NEW m \in Messages, writeData(p, m)
  PROVE  RingOK' /\ ctrl'.iDir \in {-1, 1}
<1>1. ctrl.iInitFlag = 1
  BY DEF writeData, RingOK, RingInv, RingTypes, Control
<1>2. PICK k \in 0 .. Len(queue) : Laps(k)
  BY <1>1 DEF RingOK, RingInv
<1>3. PICK w \in Cells :
        /\ w + Total(m) <= EndPos
        /\ mem' = CopyIn(mem, w, m) /\ ctrl' \in Control
        /\ queue' = Append(queue, m) /\ at' = Append(at, w)
        /\ ctrl'.iInitFlag = 1 /\ ctrl'.iDir \in {-1, 1}
        /\ ctrl'.writePos = w + Total(m) /\ ctrl'.readPos = ctrl.readPos
  BY <1>2, WriteFacts
<1>4. ctrl'.readPos \in StartPos .. EndPos /\ ctrl'.writePos \in StartPos .. EndPos
  BY <1>1, <1>3, DirDecides, TotalType, PosAssumption DEF Cells
<1>5. queue' \in Seq(Messages) /\ at' \in Seq(Cells) /\ Len(at') = Len(queue')
  BY <1>3, AppendFacts
<1>6. mem' \in [Cells -> Messages \cup {Zero, Body}]
  BY <1>3 DEF CopyIn, RingOK, RingTypes
<1>7. \E l \in 0 .. Len(queue') : Laps(l)'
  BY <1>2, WriteKeepsLaps
<1>8. RingInv'
  BY <1>3, <1>4, <1>5, <1>7 DEF RingInv
<1> QED BY <1>3, <1>5, <1>6, <1>8, WriteKeepsHolds DEF RingOK, RingTypes

\* A read keeps the ring sound.
LEMMA ReadStep ==
  ASSUME RingOK, NEW p \in Procs, readData(p)
  PROVE  RingOK' /\ ctrl'.iDir \in {-1, 1}
<1>1. ctrl.iInitFlag = 1
  BY DEF readData, RingOK, RingInv, RingTypes, Control
<1>2. PICK k \in 0 .. Len(queue) : Laps(k)
  BY <1>1 DEF RingOK, RingInv
<1>3. /\ Len(queue) > 0 /\ queue' = Tail(queue) /\ at' = Tail(at)
      /\ mem' = Clear(mem, at[1], Total(queue[1])) /\ ctrl' \in Control
      /\ ctrl'.iInitFlag = 1 /\ ctrl'.iDir \in {-1, 1}
      /\ ctrl'.readPos = After(1) /\ ctrl'.writePos = ctrl.writePos
  BY <1>1, <1>2, ReadFacts, DirDecides
<1>4. ctrl'.readPos \in StartPos .. EndPos /\ ctrl'.writePos \in StartPos .. EndPos
  <2>1. 1 \in Index
    BY <1>3 DEF Index, RingOK, RingTypes
  <2>2. StartPos <= at[1] /\ After(1) <= EndPos
    BY <2>1, Apart
  <2> QED BY <1>1, <1>3, <2>1, <2>2, IndexType, DirDecides, PosAssumption
<1>5. queue' \in Seq(Messages) /\ at' \in Seq(Cells) /\ Len(at') = Len(queue')
  BY <1>3, TailFacts
<1>6. mem' \in [Cells -> Messages \cup {Zero, Body}]
  BY <1>3 DEF Clear, RingOK, RingTypes
<1>7. \E l \in 0 .. Len(queue') : Laps(l)'
  BY <1>2, ReadKeepsLaps
<1>8. RingInv'
  BY <1>3, <1>4, <1>5, <1>7 DEF RingInv
<1> QED BY <1>3, <1>5, <1>6, <1>8, ReadKeepsHolds DEF RingOK, RingTypes

\* A refused call keeps the ring sound.
LEMMA RefusedStep ==
  ASSUME RingOK, NEW p \in Procs,
         (\E m \in Messages : writeDataRefused(p, m)) \/ readDataRefused(p)
  PROVE  RingOK'
<1>1. UNCHANGED <<mem, queue, at>>
  BY DEF writeDataRefused, readDataRefused
<1>2. RingInv' /\ ctrl' \in Control
  BY RefusedWriteKeepsRing, RefusedReadKeepsRing
<1>3. Holds'
  BY <1>1 DEF RingOK, Holds, Index, After
<1> QED BY <1>1, <1>2, <1>3 DEF RingOK, RingTypes

\* The invariant of the ring depends on nothing else but these variables.
LEMMA RingFrame ==
  ASSUME RingOK, UNCHANGED <<ctrl, mem, queue, at>>,
         ctrl.iInitFlag = 0 => \A p \in Procs : pc'[p] \notin {"write", "read"}
  PROVE  RingOK'
<1>1. Index' = Index /\ \A i : After(i)' = After(i)
  BY DEF Index, After
<1>2. Holds'
  BY <1>1 DEF RingOK, Holds
<1>3. \A k : Laps(k) => Laps(k)'
  BY DEF Laps, Index, After
<1>4. RingInv'
  BY <1>3 DEF RingOK, RingInv
<1> QED BY <1>2, <1>4 DEF RingOK, RingTypes

\* A cleared segment with both positions at its start is a sound, empty ring.
LEMMA EmptyRing ==
  ASSUME ctrl' \in Control, ctrl'.iInitFlag = 1, ctrl'.iDir \in {-1, 1},
         ctrl'.readPos = StartPos, ctrl'.writePos = StartPos,
         mem' \in [Cells -> Messages \cup {Zero, Body}], \A a \in Cells : mem'[a] = Zero,
         queue' = <<>>, at' = <<>>
  PROVE  RingOK'
<1>1. Index' = {} /\ Len(queue') = 0 /\ Len(at') = 0
  BY DEF Index
<1>2. RingTypes'
  BY DEF RingTypes
<1>3. Holds'
  BY <1>1 DEF Holds
<1>4. Laps(0)'
  BY <1>1, PosAssumption DEF Laps
<1>5. RingInv'
  BY <1>1, <1>4, PosAssumption DEF RingInv
<1> QED BY <1>2, <1>3, <1>5 DEF RingOK

\* Every initial state satisfies the inductive invariant.
LEMMA InitInv == Init => IInv
<1> SUFFICES ASSUME Init PROVE IInv
  OBVIOUS
<1>1. TypeOK /\ RingTypes
  BY DEF Init, TypeOK, RingTypes, Control
<1>2. Index = {} /\ Len(queue) = 0 /\ Len(at) = 0
  BY DEF Init, Index
<1>3. RingInv
  BY <1>2 DEF Init, RingInv
<1>4. Holds
  BY <1>2 DEF Init, Holds
<1> QED BY <1>1, <1>3, <1>4 DEF IInv, RingOK

\* Every step keeps the inductive invariant.
LEMMA StepInv == IInv /\ [Next]_vars => IInv'
<1> SUFFICES ASSUME IInv, [Next]_vars PROVE IInv'
  OBVIOUS
<1> DEFINE Places == {"off", "init", "write", "read"}
<1>1. /\ RingOK /\ ctrl \in Control
      /\ type \in [Procs -> 0 .. 2] /\ pc \in [Procs -> Places]
  BY DEF IInv, TypeOK
<1> SUFFICES RingOK' /\ type' \in [Procs -> 0 .. 2] /\ pc' \in [Procs -> Places]
  BY DEF IInv, TypeOK, RingOK, RingTypes
<1>2. ASSUME NEW p \in Procs, NEW t \in 0 .. 2, Start(p, t)
      PROVE  RingOK' /\ type' \in [Procs -> 0 .. 2] /\ pc' \in [Procs -> Places]
  <2>1. ctrl.iInitFlag = 0 => \A q \in Procs : pc'[q] \notin {"write", "read"}
    BY <1>1, <1>2 DEF Start, RingOK, RingInv
  <2> QED BY <1>1, <1>2, <2>1, RingFrame DEF Start
<1>3. ASSUME NEW p \in Procs, initShm(p)
      PROVE  RingOK' /\ type' \in [Procs -> 0 .. 2] /\ pc' \in [Procs -> Places]
  <2>1. type' = type /\ pc' \in [Procs -> Places]
    BY <1>1, <1>3 DEF initShm, FirstCall
  <2>2. CASE ctrl.iInitFlag = 1
    BY <1>1, <1>3, <2>1, <2>2, RingFrame DEF initShm
  <2>3. CASE ctrl.iInitFlag = 0
    <3>1. queue = <<>> /\ at = <<>> /\ UNCHANGED <<mem, queue, at>> /\ ctrl' = Initialised
      <4>1. queue = <<>> /\ Len(at) = Len(queue) /\ at \in Seq(Cells)
        BY <1>1, <2>3 DEF RingOK, RingInv, RingTypes
      <4>2. at = <<>>
        BY <4>1
      <4> QED BY <1>3, <2>3, <4>1, <4>2 DEF initShm
    <3>2. \A a \in Cells : mem[a] = Zero
      BY <1>1, <3>1 DEF RingOK, Holds, Index
    <3>3. ctrl' \in Control /\ ctrl'.iInitFlag = 1 /\ ctrl'.iDir \in {-1, 1}
          /\ ctrl'.readPos = StartPos /\ ctrl'.writePos = StartPos
      BY <3>1, PosAssumption DEF Initialised, Control
    <3>4. mem \in [Cells -> Messages \cup {Zero, Body}]
      BY <1>1 DEF RingOK, RingTypes
    <3>5. RingOK'
      BY <3>1, <3>2, <3>3, <3>4, EmptyRing
    <3> QED BY <1>1, <2>1, <3>5
  <2> QED BY <1>1, <2>2, <2>3 DEF Control
<1>4. ASSUME NEW p \in Procs, NEW m \in Messages, writeData(p, m)
      PROVE  RingOK' /\ type' \in [Procs -> 0 .. 2] /\ pc' \in [Procs -> Places]
  <2>1. type' = type /\ pc' \in [Procs -> Places]
    BY <1>1, <1>4 DEF writeData, AfterWrite
  <2> QED BY <1>1, <1>4, <2>1, WriteStep
<1>5. ASSUME NEW p \in Procs, readData(p)
      PROVE  RingOK' /\ type' \in [Procs -> 0 .. 2] /\ pc' \in [Procs -> Places]
  <2>1. type' = type /\ pc' \in [Procs -> Places]
    BY <1>1, <1>5 DEF readData, AfterRead, FirstCall
  <2> QED BY <1>1, <1>5, <2>1, ReadStep
<1>6. ASSUME NEW p \in Procs,
             (\E m \in Messages : writeDataRefused(p, m)) \/ readDataRefused(p)
      PROVE  RingOK' /\ type' \in [Procs -> 0 .. 2] /\ pc' \in [Procs -> Places]
  <2>1. type' = type /\ pc' = [pc EXCEPT ![p] = "off"]
    BY <1>6 DEF writeDataRefused, readDataRefused, Stop
  <2> QED BY <1>1, <1>6, <2>1, RefusedStep
<1>7. ASSUME NEW p \in Procs, StopEarly(p)
      PROVE  RingOK' /\ type' \in [Procs -> 0 .. 2] /\ pc' \in [Procs -> Places]
  <2>1. ctrl.iInitFlag = 0 => \A q \in Procs : pc'[q] \notin {"write", "read"}
    BY <1>1, <1>7 DEF StopEarly, Stop, RingOK, RingInv
  <2> QED BY <1>1, <1>7, <2>1, RingFrame DEF StopEarly, Stop
<1>8. CASE UNCHANGED vars
  <2>1. UNCHANGED <<ctrl, mem, queue, at, pc, type>>
    BY <1>8 DEF vars
  <2> QED BY <1>1, <2>1, RingFrame DEF RingOK, RingInv
<1> QED BY <1>2, <1>3, <1>4, <1>5, <1>6, <1>7, <1>8 DEF Next

\* The inductive invariant holds in every reachable state.
LEMMA Invariance == Spec => []IInv
BY InitInv, StepInv, PTL DEF Spec

\* The sign of iDir tells which position is ahead, for every ring: judegeWrite and
\* judegeRead never take a full ring for an empty one or the other way round.
THEOREM DirIsSound == Spec => []DirTellsLap
<1>1. IInv => DirTellsLap
  BY DirDecides DEF DirTellsLap, IInv
<1> QED BY <1>1, Invariance, PTL

\* In a sound ring the messages lie apart, each whole, and all else is clear.
LEMMA LayoutHolds == RingOK => Layout
<1> SUFFICES ASSUME RingOK PROVE Layout
  OBVIOUS
<1>1. DOMAIN queue = Index /\ Len(queue) \in Nat
  BY DEF RingOK, RingTypes, Index
<1>2. ASSUME NEW i \in Index, NEW a \in Int
      PROVE  a \in Extent(i) <=> at[i] <= a /\ a < After(i)
  <2>1. /\ at[i] \in Nat /\ Total(queue[i]) \in Nat /\ After(i) = at[i] + Total(queue[i])
    BY IndexType, TotalType DEF After
  <2> QED BY <2>1 DEF Extent
<1>3. \A i \in Index : Extent(i) \subseteq Cells
  <2> SUFFICES ASSUME NEW i \in Index, NEW a \in Extent(i) PROVE a \in Cells
    OBVIOUS
  <2>1. a \in Int
    BY IndexType, TotalType DEF Extent
  <2>2. at[i] <= a /\ a < After(i)
    BY <1>2, <2>1
  <2>3. StartPos <= at[i] /\ After(i) <= EndPos
    BY Apart
  <2> QED BY <2>1, <2>2, <2>3, IndexType, PosAssumption DEF Cells
<1>4. ASSUME NEW i \in Index, NEW n \in Index, i # n
      PROVE  Extent(i) \cap Extent(n) = {}
  <2> SUFFICES ASSUME NEW a \in Extent(i), a \in Extent(n) PROVE FALSE
    OBVIOUS
  <2>1. a \in Int
    BY IndexType, TotalType DEF Extent
  <2>2. at[i] <= a /\ a < After(i) /\ at[n] <= a /\ a < After(n)
    BY <1>2, <2>1
  <2>3. i < n \/ n < i
    BY <1>1, <1>4 DEF Index
  <2>4. After(i) <= at[n] \/ After(n) <= at[i]
    BY <2>3, Apart
  <2> QED BY <2>1, <2>2, <2>4, IndexType
<1>5. ASSUME NEW a \in Cells
      PROVE  mem[a] # Zero <=> \E i \in Index : a \in Extent(i)
  <2>1. a \in Int
    BY PosAssumption DEF Cells
  <2> QED BY <1>2, <2>1 DEF RingOK, Holds
<1>6. \A i \in Index : mem[at[i]] = queue[i]
  BY DEF RingOK, Holds
<1> QED BY <1>1, <1>3, <1>4, <1>5, <1>6 DEF Layout

\* writeData copies no message over another or over the control block, and readData
\* clears what it read and nothing else, for every ring and every message.
THEOREM CellsSound == Spec => []CellsAreSound
<1>1. IInv => CellsAreSound
  BY LayoutHolds DEF IInv, CellsAreSound
<1> QED BY <1>1, Invariance, PTL

\* A reader of an empty ring whose writer is a lap ahead follows it, and there is
\* room for everything that fits between the two ends.
LEMMA EmptyRingWraps ==
  ASSUME NEW c \in Control, c.iDir = -1, c.writePos = StartPos,
         c.readPos \in StartPos .. EndPos,
         \A a \in Cells : mem[a] = Zero,
         NEW m \in Messages, StartPos + Total(m) <= EndPos
  PROVE  judegeWrite(judegeRead(c, mem).ctrl, Total(m)).ok
<1>1. ~ MoreInLap(c, mem)
  <2> SUFFICES ASSUME c.readPos + HeadSize < EndPos PROVE HeadAt(mem, c.readPos) = 0
    BY DEF MoreInLap
  <2>1. c.readPos \in Cells
    BY PosAssumption DEF Cells
  <2> QED BY <2>1, CellAssumption DEF HeadAt
<1>2. ReaderAhead(c)
  BY PosAssumption DEF ReaderAhead
<1>3. judegeRead(c, mem).ctrl = WrapReader(c)
  BY <1>1, <1>2 DEF judegeRead
<1>4. /\ WrapReader(c).writePos = StartPos
      /\ WrapReader(c).iDir = 1 /\ WrapReader(c).readPos = StartPos
  BY WrapType
<1>5. WriterAhead(WrapReader(c)) /\ FitsAtEnd(WrapReader(c), Total(m))
  BY <1>4 DEF WriterAhead, FitsAtEnd
<1> QED BY <1>3, <1>5 DEF judegeWrite

\* An empty ring refuses a message that fits the segment at most once: the reader's
\* next call makes room for it.
THEOREM NotRefusedForEver == Spec => []RefusedOnceAtMost
<1>1. ASSUME RingOK PROVE RefusedOnceAtMost
  <2> SUFFICES ASSUME ctrl.iInitFlag = 1, queue = <<>>, NEW m \in Messages,
                      ~ judegeWrite(ctrl, Total(m)).ok, ~ (StartPos + Total(m) > EndPos)
               PROVE  judegeWrite(judegeRead(judegeWrite(ctrl, Total(m)).ctrl, mem).ctrl,
                                  Total(m)).ok
    BY DEF RefusedOnceAtMost
  <2> DEFINE c == judegeWrite(ctrl, Total(m)).ctrl
  <2>1. Len(queue) = 0 /\ Index = {}
    BY DEF Index
  <2>2. Laps(0)
    BY <1>1, <2>1 DEF RingOK, RingInv
  <2>3. \A a \in Cells : mem[a] = Zero
    BY <1>1, <2>1 DEF RingOK, Holds
  <2>4. /\ c \in Control /\ c.readPos = ctrl.readPos
        /\ \/ ctrl.iDir = 1 /\ c.iDir = -1 /\ c.writePos = StartPos
           \/ ctrl.iDir = -1 /\ c = ctrl
    BY <1>1, WriteJudged, DirDecides
  <2>5. c.iDir = -1 /\ c.writePos = StartPos /\ c.readPos \in StartPos .. EndPos
    BY <1>1, <2>1, <2>2, <2>4, DirDecides DEF Laps
  <2> HIDE DEF c
  <2>6. judegeWrite(judegeRead(c, mem).ctrl, Total(m)).ok
    <3>1. StartPos + Total(m) <= EndPos
      BY TotalType, PosAssumption
    <3> QED BY <2>3, <2>4, <2>5, <3>1, EmptyRingWraps
  <2> QED BY <2>6 DEF c
<1>2. IInv => RefusedOnceAtMost
  BY <1>1 DEF IInv
<1> QED BY <1>2, Invariance, PTL

\* Every step of the processes is a step of the message queue, or none: a write
\* appends, a read takes the oldest message, and a refused read found none.
LEMMA QueueStep == IInv /\ [Next]_vars => [MQ!QueueNext]_<<queue, result>>
<1> SUFFICES ASSUME IInv, [Next]_vars PROVE [MQ!QueueNext]_<<queue, result>>
  OBVIOUS
<1>1. ASSUME NEW p \in Procs, NEW m \in Messages, writeData(p, m) \/ writeDataRefused(p, m)
      PROVE  MQ!QueueNext
  BY <1>1 DEF writeData, writeDataRefused, MQ!QueueNext, MQ!Send, MQ!SendRefused
<1>2. ASSUME NEW p \in Procs, readData(p)
      PROVE  MQ!QueueNext
  <2>1. PICK k \in 0 .. Len(queue) : Laps(k)
    BY <1>2 DEF readData, IInv, RingOK, RingInv, RingTypes, Control
  <2>2. Len(queue) > 0 /\ result' = <<"read", queue[1]>> /\ queue' = Tail(queue)
    BY <1>2, <2>1, ReadFacts DEF IInv
  <2>3. queue # <<>> /\ Head(queue) = queue[1]
    BY <2>2 DEF IInv, TypeOK
  <2> QED BY <2>2, <2>3 DEF MQ!QueueNext, MQ!Receive
<1>3. ASSUME NEW p \in Procs, readDataRefused(p)
      PROVE  MQ!QueueNext
  <2>1. queue = <<>>
    BY <1>3, RefusedReadKeepsRing DEF IInv
  <2> QED BY <1>3, <2>1 DEF readDataRefused, MQ!QueueNext, MQ!ReceiveRefused
<1>4. ASSUME NEW p \in Procs,
             (\E t \in 0 .. 2 : Start(p, t)) \/ initShm(p) \/ StopEarly(p)
      PROVE  UNCHANGED <<queue, result>>
  BY <1>4 DEF Start, initShm, StopEarly
<1>5. CASE UNCHANGED vars
  BY <1>5 DEF vars
<1> QED BY <1>1, <1>2, <1>3, <1>4, <1>5 DEF Next

\* The ring implements the message queue: whatever the sizes of the messages and of
\* the segment, and however processes come, go and are killed between calls,
\* messages come out whole, once and in order.
THEOREM RingIsQueue == Spec => ImplementsQueue
<1>1. Init => MQ!QueueInit
  BY DEF Init, MQ!QueueInit
<1> QED BY <1>1, Invariance, QueueStep, PTL DEF Spec, ImplementsQueue, MQ!QueueSpec

----------------------------------------------------------------------------
(***************************************************************************)
(* ShmInit: init without a lock, while a writer and a reader start.        *)
(*                                                                         *)
(* Two facts carry the proof.  A process inside init found the flag unset: *)
(* if it is the writer nothing can have been written, if it is the reader  *)
(* nothing can have been read (StoresInv).  So what it stores is what is   *)
(* there already, but for the position of a writer that has been at work,  *)
(* which is lost.  From then on the queue says nothing about the segment;  *)
(* what remains is that the writer's lap is whole (Tiled), by which the    *)
(* reader never passes the writer.                                         *)
(***************************************************************************)

\* Messages lie one after the other from a to b in memory f: every cell of a set of
\* heads that starts at a holds a message, and behind each message there is a head
\* of the set, or b.
Tiled(f, a, b) ==
    \E H \in SUBSET Cells :
        /\ a \in H \cup {b}
        /\ \A h \in H : /\ a <= h /\ h < b /\ f[h] \in Messages
                        /\ h + Total(f[h]) \in H \cup {b}

\* The sign tells which position is ahead, and what the writer wrote in the lap it is
\* in is whole, whatever the rest of the segment holds.
LapInv ==
    /\ ctrl.readPos \in StartPos .. EndPos /\ ctrl.writePos \in StartPos .. EndPos
    /\ \/ /\ ctrl.iDir = 1 /\ ctrl.readPos <= ctrl.writePos
          /\ Tiled(mem, ctrl.readPos, ctrl.writePos)
       \/ /\ ctrl.iDir = -1 /\ ctrl.writePos <= ctrl.readPos
          /\ Tiled(mem, StartPos, ctrl.writePos)

\* The contents a segment may have.
Segment == [Cells -> Messages \cup {Zero, Body}]

\* No message lies between a place and itself.
LEMMA TiledEmpty == \A f, a : Tiled(f, a, a)
<1> SUFFICES ASSUME NEW f, NEW a PROVE Tiled(f, a, a)
  OBVIOUS
<1>1. {} \in SUBSET Cells /\ a \in {} \cup {a} /\ \A h \in {} : FALSE
  OBVIOUS
<1> QED BY <1>1 DEF Tiled

\* writeData copies its message behind those that lie before the writer.
LEMMA TiledAppend ==
  ASSUME NEW f \in Segment, NEW a \in Nat, NEW w \in Cells, NEW m \in Messages,
         a <= w, Tiled(f, a, w)
  PROVE  Tiled(CopyIn(f, w, m), a, w + Total(m))
<1>1. PICK H \in SUBSET Cells :
        /\ a \in H \cup {w}
        /\ \A h \in H : /\ a <= h /\ h < w /\ f[h] \in Messages
                        /\ h + Total(f[h]) \in H \cup {w}
  BY DEF Tiled
<1> DEFINE g == CopyIn(f, w, m)
           K == H \cup {w}
<1>2. w \in Nat /\ Total(m) \in Nat /\ Total(m) > 0
  BY TotalType, PosAssumption DEF Cells
<1>3. g[w] = m
  BY DEF CopyIn
<1>4. \A h \in H : h \in Nat /\ g[h] = f[h]
  <2> SUFFICES ASSUME NEW h \in H PROVE h \in Nat /\ g[h] = f[h]
    OBVIOUS
  <2>1. h \in Cells /\ h \in Nat /\ h < w
    BY <1>1, PosAssumption DEF Cells
  <2>2. h # w /\ h \notin w .. w + Total(m) - 1
    BY <1>2, <2>1
  <2> QED BY <2>1, <2>2 DEF CopyIn
<1> HIDE DEF g
<1>5. \A h \in K : /\ a <= h /\ h < w + Total(m) /\ g[h] \in Messages
                   /\ h + Total(g[h]) \in K \cup {w + Total(m)}
  BY <1>1, <1>2, <1>3, <1>4
<1>6. K \in SUBSET Cells /\ a \in K \cup {w + Total(m)}
  BY <1>1
<1> HIDE DEF K
<1>7. Tiled(g, a, w + Total(m))
  BY <1>5, <1>6 DEF Tiled
<1> QED BY <1>7 DEF g

\* readData finds a whole message at the first place, and leaves the others.
LEMMA TiledRead ==
  ASSUME NEW f \in Segment, NEW a \in Nat, NEW b \in Nat, a < b, Tiled(f, a, b)
  PROVE  /\ a \in Cells /\ f[a] \in Messages /\ a + Total(f[a]) <= b
         /\ Tiled(Clear(f, a, Total(f[a])), a + Total(f[a]), b)
<1>1. PICK H \in SUBSET Cells :
        /\ a \in H \cup {b}
        /\ \A h \in H : /\ a <= h /\ h < b /\ f[h] \in Messages
                        /\ h + Total(f[h]) \in H \cup {b}
  BY DEF Tiled
<1>2. a \in H
  BY <1>1
<1>3. a \in Cells /\ f[a] \in Messages
  BY <1>1, <1>2
<1>4. Total(f[a]) \in Nat /\ Total(f[a]) > 0
  BY <1>3, TotalType, PosAssumption
<1> DEFINE n == a + Total(f[a])
           g == Clear(f, a, Total(f[a]))
           K == {h \in H : n <= h}
<1>5. n \in H \cup {b} /\ n \in Nat
  BY <1>1, <1>2, <1>4
<1>6. n <= b
  BY <1>1, <1>5
<1>7. \A h \in K : /\ h \in Nat /\ g[h] = f[h] /\ h < b /\ f[h] \in Messages
                   /\ h + Total(f[h]) \in H \cup {b} /\ n <= h + Total(f[h]) /\ n <= h
  <2> SUFFICES ASSUME NEW h \in H, n <= h
               PROVE  /\ h \in Nat /\ g[h] = f[h] /\ h < b /\ f[h] \in Messages
                      /\ h + Total(f[h]) \in H \cup {b} /\ n <= h + Total(f[h])
    OBVIOUS
  <2>1. h \in Cells /\ h \in Nat /\ h < b /\ f[h] \in Messages /\ h + Total(f[h]) \in H \cup {b}
    BY <1>1, PosAssumption DEF Cells
  <2>2. Total(f[h]) \in Nat
    BY <2>1, TotalType
  <2>3. h \notin a .. a + Total(f[a]) - 1
    BY <1>4, <2>1
  <2> QED BY <1>5, <2>1, <2>2, <2>3 DEF Clear
<1> HIDE DEF g
<1>8. \A h \in K : /\ n <= h /\ h < b /\ g[h] \in Messages
                   /\ h + Total(g[h]) \in K \cup {b}
  BY <1>7
<1>9. K \in SUBSET Cells /\ n \in K \cup {b}
  BY <1>5
<1> HIDE DEF K
<1>10. Tiled(g, n, b)
  BY <1>8, <1>9 DEF Tiled
<1> QED BY <1>3, <1>6, <1>10 DEF g

\* What is cleared behind them leaves the messages whole.
LEMMA TiledClear ==
  ASSUME NEW f \in Segment, NEW a \in Nat, NEW b \in Nat, NEW c \in Nat, NEW n \in Nat,
         b <= c, Tiled(f, a, b)
  PROVE  Tiled(Clear(f, c, n), a, b)
<1>1. PICK H \in SUBSET Cells :
        /\ a \in H \cup {b}
        /\ \A h \in H : /\ a <= h /\ h < b /\ f[h] \in Messages
                        /\ h + Total(f[h]) \in H \cup {b}
  BY DEF Tiled
<1> DEFINE g == Clear(f, c, n)
<1>2. \A h \in H : g[h] = f[h]
  <2> SUFFICES ASSUME NEW h \in H PROVE g[h] = f[h]
    OBVIOUS
  <2>1. h \in Cells /\ h \in Nat /\ h < b
    BY <1>1, PosAssumption DEF Cells
  <2>2. h \notin c .. c + n - 1
    BY <2>1
  <2> QED BY <2>1, <2>2 DEF Clear
<1> HIDE DEF g
<1>3. Tiled(g, a, b)
  BY <1>1, <1>2 DEF Tiled
<1> QED BY <1>3 DEF g

\* The lap of a ring that holds whatever it may tells which position is ahead.
LEMMA LapTells ==
  ASSUME ctrl \in Control, LapInv
  PROVE  DirTellsLap /\ ctrl.iDir \in {-1, 1}
BY DEF LapInv, DirTellsLap

\* A write keeps the lap, and the reader's position.
LEMMA WriteKeepsLap ==
  ASSUME ctrl \in Control, mem \in Segment, LapInv, ctrl.iInitFlag = 1,
         NEW p \in Procs, NEW m \in Messages, writeData(p, m)
  PROVE  /\ ctrl' \in Control /\ mem' \in Segment /\ LapInv'
         /\ ctrl'.iInitFlag = 1 /\ ctrl'.readPos = ctrl.readPos /\ ctrl'.iDir \in {-1, 1}
<1> DEFINE j == judegeWrite(ctrl, Total(m))
           w == j.ctrl.writePos
<1>1. DirTellsLap
  BY LapTells
<1>2. /\ j.ok /\ j.ctrl \in Control
      /\ j.ctrl.iInitFlag = 1 /\ j.ctrl.readPos = ctrl.readPos
      /\ \/ ctrl.iDir = 1 /\ j.ctrl = ctrl /\ ctrl.writePos + Total(m) <= EndPos
         \/ /\ ctrl.iDir = 1 /\ j.ctrl.iDir = -1 /\ j.ctrl.writePos = StartPos
            /\ StartPos + Total(m) <= ctrl.readPos
         \/ /\ ctrl.iDir = -1 /\ j.ctrl = ctrl
            /\ ctrl.writePos + Total(m) <= ctrl.readPos
  BY <1>1, WriteJudged DEF writeData
<1>3. mem' = CopyIn(mem, w, m) /\ ctrl' = [j.ctrl EXCEPT !.writePos = w + Total(m)]
  BY DEF writeData
<1> HIDE DEF j
<1>4. w \in Nat
  BY <1>2 DEF Control
<1>5. /\ ctrl' \in Control /\ ctrl'.iInitFlag = 1
      /\ ctrl'.writePos = w + Total(m) /\ ctrl'.readPos = ctrl.readPos
      /\ ctrl'.iDir = j.ctrl.iDir
  BY <1>2, <1>3, <1>4, TotalType DEF Control
<1>6. /\ ctrl.readPos \in Nat /\ ctrl.writePos \in Nat
      /\ ctrl.readPos \in StartPos .. EndPos /\ ctrl.writePos \in StartPos .. EndPos
      /\ ctrl.iDir = 1 => ctrl.readPos <= ctrl.writePos
      /\ ctrl.iDir = -1 => ctrl.writePos <= ctrl.readPos
      /\ Total(m) \in Nat /\ Total(m) > 0
  BY <1>1, SignDecides, TotalType, PosAssumption
<1>7. w \in Cells /\ w + Total(m) \in StartPos .. EndPos
  BY <1>2, <1>4, <1>6, PosAssumption DEF Cells
<1>8. mem' \in Segment
  BY <1>3 DEF CopyIn, Segment
<1>9. CASE ctrl.iDir = 1 /\ j.ctrl = ctrl
  <2>1. Tiled(mem, ctrl.readPos, w)
    BY <1>9 DEF LapInv
  <2>2. Tiled(mem', ctrl.readPos, w + Total(m))
    BY <1>3, <1>6, <1>7, <1>9, <2>1, TiledAppend
  <2> QED BY <1>5, <1>6, <1>7, <1>8, <1>9, <2>2 DEF LapInv
<1>10. CASE j.ctrl.iDir = -1 /\ w = StartPos /\ StartPos + Total(m) <= ctrl.readPos
  <2>1. Tiled(mem', StartPos, w + Total(m))
    BY <1>3, <1>7, <1>10, TiledEmpty, TiledAppend, PosAssumption
  <2> QED BY <1>5, <1>6, <1>7, <1>8, <1>10, <2>1 DEF LapInv
<1>11. CASE ctrl.iDir = -1 /\ j.ctrl = ctrl /\ ctrl.writePos + Total(m) <= ctrl.readPos
  <2>1. Tiled(mem, StartPos, w)
    BY <1>11 DEF LapInv
  <2>2. StartPos \in Nat /\ StartPos <= w
    BY <1>6, <1>11, PosAssumption
  <2>3. Tiled(mem', StartPos, w + Total(m))
    BY <1>3, <1>7, <2>1, <2>2, TiledAppend
  <2> QED BY <1>5, <1>6, <1>7, <1>8, <1>11, <2>3 DEF LapInv
<1> QED BY <1>2, <1>9, <1>10, <1>11

\* A refused write keeps the lap: at most it sends the writer to the start.
LEMMA RefusedWriteKeepsLap ==
  ASSUME ctrl \in Control, LapInv, ctrl.iInitFlag = 1,
         NEW p \in Procs, NEW m \in Messages, writeDataRefused(p, m)
  PROVE  /\ ctrl' \in Control /\ LapInv'
         /\ ctrl'.iInitFlag = 1 /\ ctrl'.readPos = ctrl.readPos /\ ctrl'.iDir \in {-1, 1}
         /\ ctrl'.writePos \in {StartPos, ctrl.writePos}
<1>1. DirTellsLap
  BY LapTells
<1>2. /\ ctrl' \in Control
      /\ ctrl'.iInitFlag = 1 /\ ctrl'.readPos = ctrl.readPos
      /\ \/ ctrl' = ctrl
         \/ ctrl'.iDir = -1 /\ ctrl'.writePos = StartPos
  BY <1>1, WriteJudged DEF writeDataRefused
<1>3. mem' = mem
  BY DEF writeDataRefused
<1>4. CASE ctrl' = ctrl
  BY <1>2, <1>3, <1>4, LapTells DEF LapInv
<1>5. CASE ctrl'.iDir = -1 /\ ctrl'.writePos = StartPos
  BY <1>2, <1>5, TiledEmpty, PosAssumption DEF LapInv
<1> QED BY <1>2, <1>4, <1>5

\* What judegeRead finds in a lap that is whole: the next message of it, anything the
\* reader's own lap holds, or nothing.
LEMMA LapJudged ==
  ASSUME ctrl \in Control, mem \in Segment, LapInv, ctrl.iInitFlag = 1
  PROVE  LET j == judegeRead(ctrl, mem)
         IN  /\ j.ctrl \in Control /\ j.ctrl.iInitFlag = 1
             /\ j.ctrl.writePos = ctrl.writePos /\ j.ctrl.readPos \in StartPos .. EndPos
             /\ j.ctrl.readPos \in {StartPos, ctrl.readPos}
             /\ \/ /\ j.ctrl.iDir = 1 /\ j.ctrl.readPos <= ctrl.writePos
                   /\ Tiled(mem, j.ctrl.readPos, ctrl.writePos)
                   /\ j.ok <=> ctrl.writePos > j.ctrl.readPos
                \/ /\ j.ctrl = ctrl /\ ctrl.iDir = -1 /\ j.ok /\ MoreInLap(ctrl, mem)
<1>1. /\ ctrl.readPos \in Nat /\ ctrl.writePos \in Nat
      /\ ctrl.readPos \in StartPos .. EndPos /\ ctrl.writePos \in StartPos .. EndPos
      /\ ctrl.iDir = 1 \/ ctrl.iDir = -1
      /\ ctrl.iDir = 1 => ctrl.readPos <= ctrl.writePos
      /\ ReaderAhead(ctrl) <=> ctrl.iDir = -1
  BY SignDecides, LapTells
<1>2. CASE ctrl.iDir = 1
  BY <1>1, <1>2 DEF judegeRead, LapInv
<1>3. CASE ctrl.iDir = -1 /\ MoreInLap(ctrl, mem)
  BY <1>1, <1>3 DEF judegeRead
<1>4. CASE ctrl.iDir = -1 /\ ~ MoreInLap(ctrl, mem)
  <2>1. judegeRead(ctrl, mem).ctrl = WrapReader(ctrl)
    BY <1>1, <1>4 DEF judegeRead
  <2>2. /\ WrapReader(ctrl) \in Control
        /\ WrapReader(ctrl).iInitFlag = 1 /\ WrapReader(ctrl).writePos = ctrl.writePos
        /\ WrapReader(ctrl).iDir = 1 /\ WrapReader(ctrl).readPos = StartPos
    BY <1>4, WrapType
  <2>3. judegeRead(ctrl, mem).ok <=> ctrl.writePos > StartPos
    BY <1>1, <1>4, <2>2 DEF judegeRead
  <2>4. Tiled(mem, StartPos, ctrl.writePos)
    BY <1>4 DEF LapInv
  <2> QED BY <1>1, <2>1, <2>2, <2>3, <2>4, PosAssumption
<1> QED BY <1>1, <1>2, <1>3, <1>4

\* A read keeps the lap, and the writer's position.
LEMMA ReadKeepsLap ==
  ASSUME ctrl \in Control, mem \in Segment, LapInv, ctrl.iInitFlag = 1,
         NEW p \in Procs, readData(p)
  PROVE  /\ ctrl' \in Control /\ mem' \in Segment /\ LapInv'
         /\ ctrl'.iInitFlag = 1 /\ ctrl'.iDir \in {-1, 1}
<1> DEFINE j == judegeRead(ctrl, mem)
           a == j.ctrl.readPos
           n == HeadSize + HeadAt(mem, a)
<1>1. /\ j.ok /\ j.ctrl \in Control /\ j.ctrl.iInitFlag = 1
      /\ j.ctrl.writePos = ctrl.writePos /\ a \in StartPos .. EndPos
      /\ \/ /\ j.ctrl.iDir = 1 /\ a < ctrl.writePos
            /\ Tiled(mem, a, ctrl.writePos)
         \/ j.ctrl = ctrl /\ ctrl.iDir = -1 /\ MoreInLap(ctrl, mem)
  BY LapJudged DEF readData, Control
<1>2. mem' = Clear(mem, a, n) /\ ctrl' = [j.ctrl EXCEPT !.readPos = a + n]
  BY DEF readData
<1> HIDE DEF j
<1>3. /\ ctrl.writePos \in StartPos .. EndPos /\ ctrl.writePos \in Nat /\ a \in Nat
      /\ StartPos <= a /\ ctrl.writePos <= EndPos
  BY <1>1, PosAssumption DEF LapInv
<1>4. mem' \in Segment
  BY <1>2 DEF Clear, Segment
<1>5. CASE j.ctrl.iDir = 1 /\ a < ctrl.writePos /\ Tiled(mem, a, ctrl.writePos)
  <2>1. /\ mem[a] \in Messages /\ a + Total(mem[a]) <= ctrl.writePos
        /\ Tiled(Clear(mem, a, Total(mem[a])), a + Total(mem[a]), ctrl.writePos)
    BY <1>3, <1>5, TiledRead
  <2>2. n = Total(mem[a])
    BY <2>1 DEF HeadAt, Total
  <2>3. n \in Nat
    BY <2>1, <2>2, TotalType
  <2>4. Tiled(mem', a + n, ctrl.writePos) /\ a + n <= ctrl.writePos
    BY <1>2, <2>1, <2>2
  <2> HIDE DEF n
  <2> HIDE DEF a
  <2>5. a + n \in Nat /\ a + n \in StartPos .. EndPos
    BY <1>3, <2>3, <2>4, PosAssumption
  <2>6. /\ ctrl' \in Control /\ ctrl'.iInitFlag = 1 /\ ctrl'.iDir = 1
        /\ ctrl'.readPos = a + n /\ ctrl'.writePos = ctrl.writePos
    BY <1>1, <1>2, <1>5, <2>5 DEF Control
  <2> QED BY <1>3, <1>4, <2>4, <2>5, <2>6 DEF LapInv
<1>6. CASE j.ctrl = ctrl /\ ctrl.iDir = -1 /\ MoreInLap(ctrl, mem)
  <2>1. HeadAt(mem, a) > 0 /\ a + HeadSize + HeadAt(mem, a) <= EndPos
    BY <1>6 DEF MoreInLap
  <2>2. HeadAt(mem, a) \in Nat
    BY SizeAssumption DEF HeadAt
  <2>3. n \in Nat /\ a + n <= EndPos
    BY <1>3, <2>1, <2>2, PosAssumption
  <2>4. ctrl.writePos <= a /\ Tiled(mem, StartPos, ctrl.writePos)
    BY <1>6 DEF LapInv
  <2>5. Tiled(mem', StartPos, ctrl.writePos)
    BY <1>2, <1>3, <2>3, <2>4, TiledClear, PosAssumption
  <2> HIDE DEF n
  <2> HIDE DEF a
  <2>6. a + n \in Nat /\ a + n \in StartPos .. EndPos /\ ctrl.writePos <= a + n
    BY <1>3, <2>3, <2>4, PosAssumption
  <2>7. /\ ctrl' \in Control /\ ctrl'.iInitFlag = 1 /\ ctrl'.iDir = -1
        /\ ctrl'.readPos = a + n /\ ctrl'.writePos = ctrl.writePos
    BY <1>1, <1>2, <1>6, <2>6 DEF Control
  <2> QED BY <1>3, <1>4, <2>5, <2>6, <2>7 DEF LapInv
<1> QED BY <1>1, <1>5, <1>6

\* A refused read keeps the lap: at most it sends the reader after the writer.
LEMMA RefusedReadKeepsLap ==
  ASSUME ctrl \in Control, mem \in Segment, LapInv, ctrl.iInitFlag = 1,
         NEW p \in Procs, readDataRefused(p)
  PROVE  /\ ctrl' \in Control /\ LapInv'
         /\ ctrl'.iInitFlag = 1 /\ ctrl'.iDir \in {-1, 1}
         /\ ctrl'.writePos = ctrl.writePos /\ ctrl'.readPos \in {StartPos, ctrl.readPos}
<1>1. /\ ctrl' \in Control /\ ctrl'.iInitFlag = 1
      /\ ctrl'.writePos = ctrl.writePos /\ ctrl'.readPos \in StartPos .. EndPos
      /\ ctrl'.readPos \in {StartPos, ctrl.readPos}
      /\ ctrl'.iDir = 1 /\ ctrl'.readPos <= ctrl.writePos
      /\ Tiled(mem, ctrl'.readPos, ctrl.writePos)
  BY LapJudged DEF readDataRefused
<1>2. mem' = mem /\ ctrl.writePos \in StartPos .. EndPos
  BY DEF readDataRefused, LapInv
<1> QED BY <1>1, <1>2 DEF LapInv

\* Who is where: a process past init found the flag set, or set it.
PlaceInv ==
    /\ type \in [Procs -> 0 .. 2]
    /\ \A p \in Procs : /\ pc[p] # "off" => type[p] \in Types(p)
                        /\ pc[p] = "write" => type[p] = 1
                        /\ pc[p] = "read" => type[p] = 2
                        /\ pc[p] \in {"write", "read", "iDir"} => ctrl.iInitFlag = 1

\* Until iDir is stored nothing is written or read, and the positions are stored
\* before the flag.
UnsetInv ==
    /\ ctrl.iInitFlag = 0 => ctrl.iDir = 0
    /\ ctrl.iDir = 0 => phase = "fresh"
    /\ ctrl.iInitFlag = 0 => \A p \in Procs :
           /\ pc[p] \in {"writePos", "iInitFlag"} => ctrl.readPos = StartPos
           /\ pc[p] = "iInitFlag" => ctrl.writePos = StartPos
    /\ ctrl.iInitFlag = 1 /\ ctrl.iDir = 0 => cut \/ \E p \in Procs : pc[p] = "iDir"

\* While nothing was written or read the ring is empty, at its start.
FreshInv ==
    phase = "fresh" => /\ queue = <<>> /\ at = <<>> /\ result[1] \notin {"written", "read"}
                       /\ \A a \in Cells : mem[a] = Zero
                       /\ ctrl.iInitFlag = 1 => ctrl.readPos = StartPos /\ ctrl.writePos = StartPos

\* And so it is for a writer as long as it is inside init: only it could have written.
\* For a reader inside init the reader's position is: only it could have read.
StoresInv ==
    \A p \in Procs : pc[p] \in Stores =>
        /\ type[p] = 1 => phase = "fresh"
        /\ type[p] = 2 /\ ctrl.iInitFlag = 1 => ctrl.readPos = StartPos

\* Once iDir is stored there is a ring, and it is sound until init stores late.
RingsInv == ctrl.iDir # 0 => LapInv /\ (phase # "late" => RingOK)

OverlapInv == InitTypeOK /\ PlaceInv /\ UnsetInv /\ FreshInv /\ StoresInv /\ RingsInv

\* The places of a process in main and init.
Places == {"off", "init", "write", "read"} \cup Stores

\* The types, with names for the sets.
LEMMA InitTypes ==
  InitTypeOK <=> /\ ctrl \in Control /\ mem \in Segment /\ pc \in [Procs -> Places]
                 /\ phase \in {"fresh", "used", "late"} /\ cut \in BOOLEAN
BY DEF InitTypeOK, Segment, Places

\* The same after a step.
LEMMA InitTypesNext ==
  InitTypeOK' <=> /\ ctrl' \in Control /\ mem' \in Segment /\ pc' \in [Procs -> Places]
                  /\ phase' \in {"fresh", "used", "late"} /\ cut' \in BOOLEAN
BY DEF InitTypeOK, Segment, Places

\* A segment that is cleared and not initialised satisfies the invariant.
LEMMA OverlapInit == InitInit => OverlapInv
<1> SUFFICES ASSUME InitInit PROVE OverlapInv
  OBVIOUS
<1>1. InitTypeOK
  BY InitTypes DEF InitInit, Init, Control, Segment, Places
<1>2. PlaceInv /\ UnsetInv /\ StoresInv
  BY DEF InitInit, Init, PlaceInv, UnsetInv, StoresInv, Stores
<1>3. FreshInv /\ RingsInv
  BY DEF InitInit, Init, FreshInv, RingsInv
<1> QED BY <1>1, <1>2, <1>3 DEF OverlapInv

\* A step of a process that touches neither the segment nor the history keeps what
\* the invariant says of them.
LEMMA OverlapFrame ==
  ASSUME OverlapInv, UNCHANGED <<ctrl, mem, queue, at, result, phase>>,
         \A p \in Procs : pc'[p] \in {"write", "read"} => ctrl.iInitFlag = 1
  PROVE  FreshInv' /\ RingsInv'
<1>1. FreshInv'
  BY DEF OverlapInv, FreshInv
<1>2. LapInv => LapInv'
  BY DEF LapInv
<1>3. ctrl.iInitFlag = 0 => \A p \in Procs : pc'[p] \notin {"write", "read"}
  OBVIOUS
<1>4. RingOK => RingOK'
  BY <1>3, RingFrame
<1> QED BY <1>1, <1>2, <1>4 DEF OverlapInv, RingsInv

\* A process starts, tests the flag, or is killed.
LEMMA OverlapMoves ==
  ASSUME OverlapInv, NEW p \in Procs,
         \/ (\E t \in Types(p) : Start(p, t)) /\ UNCHANGED <<phase, cut>>
         \/ TestFlag(p)
         \/ Kill(p)
  PROVE  OverlapInv'
<1>1. /\ ctrl \in Control /\ mem \in Segment /\ pc \in [Procs -> Places]
      /\ phase \in {"fresh", "used", "late"} /\ cut \in BOOLEAN
      /\ ctrl.iInitFlag \in {0, 1}
  BY InitTypes DEF OverlapInv, Control
<1>2. UNCHANGED <<ctrl, mem, queue, at, result, phase>>
  BY DEF Start, TestFlag, Kill, StopEarly
<1>3. type \in [Procs -> 0 .. 2] /\ Types(p) \subseteq {1, 2}
  BY TypesAssumption DEF OverlapInv, PlaceInv
<1>4. \/ /\ pc[p] = "off" /\ pc'[p] = "init" /\ type'[p] \in Types(p) /\ cut' = cut
      \/ /\ pc[p] = "init" /\ pc'[p] = "readPos" /\ type'[p] = type[p] /\ cut' = cut
         /\ ctrl.iInitFlag = 0
      \/ /\ pc[p] = "init" /\ pc'[p] = FirstCall(type[p]) /\ type'[p] = type[p] /\ cut' = cut
         /\ ctrl.iInitFlag = 1
      \/ /\ pc'[p] = "off" /\ type'[p] = type[p] /\ cut' = (cut \/ pc[p] = "iDir")
  BY <1>1, <1>3 DEF Start, TestFlag, Kill, StopEarly, Stop
<1>5. /\ type' \in [Procs -> 0 .. 2] /\ pc' \in [Procs -> Places] /\ cut' \in BOOLEAN
      /\ \A q \in Procs : q # p => pc'[q] = pc[q] /\ type'[q] = type[q]
  <2>1. CASE \E t \in Types(p) : Start(p, t) /\ UNCHANGED <<phase, cut>>
    BY <1>1, <1>3, <2>1 DEF Start, Places
  <2>2. CASE TestFlag(p)
    BY <1>1, <1>3, <2>2 DEF TestFlag, FirstCall, Places, Stores
  <2>3. CASE Kill(p)
    BY <1>1, <1>3, <2>3 DEF Kill, StopEarly, Stop, Places
  <2> QED BY <2>1, <2>2, <2>3
<1>6. InitTypeOK'
  BY <1>1, <1>2, <1>5, InitTypesNext
<1>7. PlaceInv'
  BY <1>2, <1>3, <1>4, <1>5 DEF PlaceInv, OverlapInv, FirstCall
<1>8. UnsetInv'
  <2>1. ctrl.iInitFlag = 1 /\ ctrl.iDir = 0 => cut' \/ \E q \in Procs : pc'[q] = "iDir"
    <3> SUFFICES ASSUME ctrl.iInitFlag = 1, ctrl.iDir = 0, ~ cut
                 PROVE  cut' \/ \E q \in Procs : pc'[q] = "iDir"
      BY <1>4
    <3>1. PICK q \in Procs : pc[q] = "iDir"
      BY DEF OverlapInv, UnsetInv
    <3> QED BY <1>4, <1>5, <3>1
  <2> QED BY <1>2, <1>4, <1>5, <2>1 DEF UnsetInv, OverlapInv, FirstCall
<1>9. FreshInv' /\ RingsInv'
  <2>1. \A q \in Procs : pc'[q] \in {"write", "read"} => ctrl.iInitFlag = 1
    BY <1>4, <1>5 DEF OverlapInv, PlaceInv
  <2> QED BY <1>2, <2>1, OverlapFrame
<1>10. StoresInv'
  BY <1>2, <1>4, <1>5 DEF StoresInv, UnsetInv, OverlapInv, FirstCall, Stores
<1> QED BY <1>6, <1>7, <1>8, <1>9, <1>10 DEF OverlapInv

\* What init finds in the fields it stores: until iInitFlag is stored nothing was
\* written or read; from then on the positions are those it stores, but for the
\* writer's position while a reader is inside init.
LEMMA StoreFacts ==
  ASSUME OverlapInv, NEW p \in Procs, Store(p)
  PROVE  /\ type[p] \in {1, 2}
         /\ ctrl' \in Control /\ ctrl'.iDir \in {ctrl.iDir, 1}
         /\ ctrl'.iInitFlag \in {ctrl.iInitFlag, 1}
         /\ ctrl'.readPos \in {ctrl.readPos, StartPos} /\ ctrl'.writePos \in {ctrl.writePos, StartPos}
         /\ pc[p] = "readPos" => ctrl'.readPos = StartPos /\ pc'[p] = "writePos"
         /\ pc[p] = "writePos" => ctrl'.writePos = StartPos /\ pc'[p] = "iInitFlag"
         /\ pc[p] = "iInitFlag" => ctrl'.iInitFlag = 1 /\ pc'[p] = "iDir"
         /\ pc[p] = "iDir" => ctrl'.iDir = 1 /\ pc'[p] = FirstCall(type[p])
         /\ pc[p] # "iDir" => ctrl'.iDir = ctrl.iDir
         /\ pc[p] # "iInitFlag" => ctrl'.iInitFlag = ctrl.iInitFlag
         /\ \A q \in Procs : q # p => pc'[q] = pc[q]
         /\ pc' \in [Procs -> Places]
         /\ ctrl.iInitFlag = 1 => ctrl.readPos = StartPos
         /\ ctrl.iInitFlag = 1 /\ phase = "fresh" => ctrl.writePos = StartPos
<1>1. ctrl \in Control /\ pc \in [Procs -> Places]
  BY InitTypes DEF OverlapInv
<1>2. pc[p] \in Stores
  BY DEF Store
<1>3. type[p] \in {1, 2}
  BY <1>2, TypesAssumption DEF OverlapInv, PlaceInv, Stores
<1>4. /\ pc' \in [Procs -> Places]
      /\ \A q \in Procs : q # p => pc'[q] = pc[q]
      /\ pc[p] = "readPos" => pc'[p] = "writePos"
      /\ pc[p] = "writePos" => pc'[p] = "iInitFlag"
      /\ pc[p] = "iInitFlag" => pc'[p] = "iDir"
      /\ pc[p] = "iDir" => pc'[p] = FirstCall(type[p])
  BY <1>1, <1>2 DEF Store, Stores, Places, FirstCall, AfterTest
<1>5. /\ pc[p] = "readPos" => ctrl' = [ctrl EXCEPT !.readPos = StartPos]
      /\ pc[p] = "writePos" => ctrl' = [ctrl EXCEPT !.writePos = StartPos]
      /\ pc[p] = "iInitFlag" => ctrl' = [ctrl EXCEPT !.iInitFlag = 1]
      /\ pc[p] = "iDir" => ctrl' = [ctrl EXCEPT !.iDir = 1]
  <2>1. /\ Initialised.readPos = StartPos /\ Initialised.writePos = StartPos
        /\ Initialised.iInitFlag = 1 /\ Initialised.iDir = 1
    BY DEF Initialised
  <2>2. ctrl' = [ctrl EXCEPT ![pc[p]] = Initialised[pc[p]]]
    BY DEF Store
  <2> QED BY <2>1, <2>2, Zenon
<1>6. StartPos \in Nat
  BY PosAssumption
<1>7. ctrl.iInitFlag = 1 => ctrl.readPos = StartPos
  BY <1>2, <1>3 DEF OverlapInv, StoresInv, FreshInv
<1>8. ctrl.iInitFlag = 1 /\ phase = "fresh" => ctrl.writePos = StartPos
  BY DEF OverlapInv, FreshInv
<1>9. CASE pc[p] = "readPos"
  BY <1>1, <1>3, <1>4, <1>5, <1>6, <1>7, <1>8, <1>9 DEF Control
<1>10. CASE pc[p] = "writePos"
  BY <1>1, <1>3, <1>4, <1>5, <1>6, <1>7, <1>8, <1>10 DEF Control
<1>11. CASE pc[p] = "iInitFlag"
  BY <1>1, <1>3, <1>4, <1>5, <1>6, <1>7, <1>8, <1>11 DEF Control
<1>12. CASE pc[p] = "iDir"
  BY <1>1, <1>3, <1>4, <1>5, <1>6, <1>7, <1>8, <1>12 DEF Control
<1> QED BY <1>2, <1>9, <1>10, <1>11, <1>12 DEF Stores

\* init stores a field of the control block.  A ring that was used before is lost, but
\* it stays a ring.
LEMMA OverlapStore ==
  ASSUME OverlapInv, NEW p \in Procs, Store(p)
  PROVE  OverlapInv'
<1>1. /\ ctrl \in Control /\ mem \in Segment /\ pc \in [Procs -> Places]
      /\ phase \in {"fresh", "used", "late"} /\ cut \in BOOLEAN
      /\ ctrl.iInitFlag \in {0, 1} /\ ctrl.iDir \in {-1, 0, 1}
  BY InitTypes DEF OverlapInv, Control
<1>2. UNCHANGED <<mem, type, queue, at, result, cut>> /\ pc[p] \in Stores
  BY DEF Store
<1>3. /\ phase = "fresh" => phase' = "fresh"
      /\ phase # "fresh" => phase' = "late"
      /\ phase' \in {"fresh", "late"}
  BY <1>1 DEF Store
<1>4. /\ type[p] \in {1, 2} /\ ctrl' \in Control /\ pc' \in [Procs -> Places]
      /\ ctrl'.iDir \in {ctrl.iDir, 1} /\ ctrl'.iInitFlag \in {ctrl.iInitFlag, 1}
      /\ ctrl'.readPos \in {ctrl.readPos, StartPos} /\ ctrl'.writePos \in {ctrl.writePos, StartPos}
      /\ pc[p] = "readPos" => ctrl'.readPos = StartPos /\ pc'[p] = "writePos"
      /\ pc[p] = "writePos" => ctrl'.writePos = StartPos /\ pc'[p] = "iInitFlag"
      /\ pc[p] = "iInitFlag" => ctrl'.iInitFlag = 1 /\ pc'[p] = "iDir"
      /\ pc[p] = "iDir" => ctrl'.iDir = 1 /\ pc'[p] = FirstCall(type[p])
      /\ pc[p] # "iDir" => ctrl'.iDir = ctrl.iDir
      /\ pc[p] # "iInitFlag" => ctrl'.iInitFlag = ctrl.iInitFlag
      /\ \A q \in Procs : q # p => pc'[q] = pc[q]
      /\ ctrl.iInitFlag = 1 => ctrl.readPos = StartPos
      /\ ctrl.iInitFlag = 1 /\ phase = "fresh" => ctrl.writePos = StartPos
  BY StoreFacts
<1>5. pc[p] = "readPos" \/ pc[p] = "writePos" \/ pc[p] = "iInitFlag" \/ pc[p] = "iDir"
  BY <1>2 DEF Stores
<1>6. InitTypeOK'
  BY <1>1, <1>2, <1>3, <1>4, InitTypesNext
<1>7. pc[p] = "iDir" => ctrl.iInitFlag = 1
  BY DEF OverlapInv, PlaceInv
<1>8. PlaceInv'
  <2>1. ASSUME NEW q \in Procs
        PROVE  /\ pc'[q] # "off" => type[q] \in Types(q)
               /\ pc'[q] = "write" => type[q] = 1
               /\ pc'[q] = "read" => type[q] = 2
               /\ pc'[q] \in {"write", "read", "iDir"} => ctrl'.iInitFlag = 1
    <3>1. /\ pc[q] # "off" => type[q] \in Types(q)
          /\ pc[q] = "write" => type[q] = 1
          /\ pc[q] = "read" => type[q] = 2
          /\ pc[q] \in {"write", "read", "iDir"} => ctrl.iInitFlag = 1
      BY DEF OverlapInv, PlaceInv
    <3>2. CASE q # p
      BY <1>4, <3>1, <3>2
    <3>3. CASE q = p
      BY <1>4, <1>5, <1>7, <3>1, <3>3 DEF FirstCall
    <3> QED BY <3>2, <3>3
  <2> QED BY <1>2, <2>1 DEF PlaceInv, OverlapInv
<1>9. ctrl.iInitFlag = 0 => phase = "fresh" /\ ctrl.iDir = 0
  BY DEF OverlapInv, UnsetInv
<1>10. ctrl.iDir = 0 => phase = "fresh"
  BY DEF OverlapInv, UnsetInv
<1>11. UnsetInv'
  <2>1. ctrl'.iInitFlag = 0 => ctrl'.iDir = 0
    BY <1>1, <1>4, <1>5, <1>7, <1>9
  <2>2. ctrl'.iDir = 0 => phase' = "fresh"
    BY <1>3, <1>4, <1>10
  <2>3. ASSUME ctrl'.iInitFlag = 0, NEW q \in Procs
        PROVE  /\ pc'[q] \in {"writePos", "iInitFlag"} => ctrl'.readPos = StartPos
               /\ pc'[q] = "iInitFlag" => ctrl'.writePos = StartPos
    <3>1. ctrl.iInitFlag = 0
      BY <1>1, <1>4, <2>3
    <3>2. \A r \in Procs : /\ pc[r] \in {"writePos", "iInitFlag"} => ctrl.readPos = StartPos
                           /\ pc[r] = "iInitFlag" => ctrl.writePos = StartPos
      BY <3>1 DEF OverlapInv, UnsetInv
    <3>3. CASE q # p
      BY <1>4, <3>2, <3>3
    <3>4. CASE q = p
      BY <1>4, <1>5, <1>7, <3>1, <3>2, <3>4, <2>3
    <3> QED BY <3>3, <3>4
  <2>4. ctrl'.iInitFlag = 1 /\ ctrl'.iDir = 0 => cut' \/ \E q \in Procs : pc'[q] = "iDir"
    <3> SUFFICES ASSUME ctrl'.iInitFlag = 1, ctrl'.iDir = 0, ~ cut
                 PROVE  \E q \in Procs : pc'[q] = "iDir"
      BY <1>2
    <3>1. CASE pc[p] = "iInitFlag"
      BY <1>4, <3>1
    <3>2. CASE pc[p] # "iInitFlag"
      <4>1. ctrl.iInitFlag = 1 /\ ctrl.iDir = 0 /\ pc[p] # "iDir"
        BY <1>4, <3>2
      <4>2. PICK q \in Procs : pc[q] = "iDir"
        BY <4>1 DEF OverlapInv, UnsetInv
      <4> QED BY <1>4, <4>1, <4>2
    <3> QED BY <3>1, <3>2
  <2> QED BY <2>1, <2>2, <2>3, <2>4 DEF UnsetInv
<1>12. /\ ctrl'.iInitFlag = 1 => ctrl'.readPos = StartPos
       /\ ctrl'.iInitFlag = 1 /\ phase = "fresh" => ctrl'.writePos = StartPos
  <2>1. CASE ctrl.iInitFlag = 1
    BY <1>4, <2>1
  <2>2. CASE ctrl.iInitFlag = 0
    <3>1. ctrl'.iInitFlag = 1 => pc[p] = "iInitFlag"
      BY <1>4, <2>2
    <3>2. pc[p] = "iInitFlag" => ctrl.readPos = StartPos /\ ctrl.writePos = StartPos
      BY <2>2 DEF OverlapInv, UnsetInv
    <3> QED BY <1>4, <3>1, <3>2
  <2> QED BY <1>1, <2>1, <2>2
<1>13. FreshInv'
  BY <1>2, <1>3, <1>12 DEF FreshInv, OverlapInv
<1>14. StoresInv'
  <2> SUFFICES ASSUME NEW q \in Procs, pc'[q] \in Stores, type[q] = 1
               PROVE  phase' = "fresh"
    BY <1>2, <1>12 DEF StoresInv
  <2>1. pc[q] \in Stores
    BY <1>2, <1>4
  <2> QED BY <1>3, <2>1 DEF OverlapInv, StoresInv
<1>15. RingsInv'
  <2> SUFFICES ASSUME ctrl'.iDir # 0 PROVE LapInv' /\ (phase' # "late" => RingOK')
    BY DEF RingsInv
  <2>1. ctrl.iInitFlag = 1 /\ ctrl'.iInitFlag = 1 /\ ctrl.readPos = StartPos /\ ctrl'.readPos = StartPos
    BY <1>1, <1>4, <1>7, <1>9, <1>12
  <2>2. CASE phase = "fresh"
    <3>1. /\ ctrl'.writePos = StartPos /\ queue' = <<>> /\ at' = <<>>
          /\ \A a \in Cells : mem'[a] = Zero
      BY <1>2, <1>12, <2>1, <2>2 DEF OverlapInv, FreshInv
    <3>2. ctrl'.iDir \in {-1, 1}
      BY <1>4 DEF Control
    <3>3. RingOK'
      BY <1>1, <1>2, <1>4, <2>1, <3>1, <3>2, EmptyRing DEF Segment
    <3>4. LapInv'
      BY <2>1, <3>1, <3>2, TiledEmpty, PosAssumption DEF LapInv
    <3> QED BY <3>3, <3>4
  <2>3. CASE phase # "fresh"
    <3>1. LapInv /\ ctrl.iDir # 0
      BY <1>10, <2>3 DEF OverlapInv, RingsInv
    <3>2. StartPos \in Nat /\ StartPos \in StartPos .. EndPos
      BY PosAssumption
    <3>3. CASE ctrl'.writePos = StartPos
      <4>1. ctrl'.iDir \in {-1, 1}
        BY <1>4 DEF Control
      <4> QED BY <1>3, <2>1, <2>3, <3>2, <3>3, <4>1, TiledEmpty DEF LapInv
    <3>4. CASE ctrl'.writePos # StartPos
      <4>1. ctrl'.writePos = ctrl.writePos
        BY <1>4, <3>4
      <4>2. ctrl.iDir = 1
        <5>1. ctrl.iDir = -1 => ctrl.writePos <= StartPos /\ ctrl.writePos \in StartPos .. EndPos
          BY <2>1, <3>1 DEF LapInv
        <5>2. ctrl.iDir # -1
          BY <3>2, <3>4, <4>1, <5>1, PosAssumption
        <5> QED BY <1>1, <3>1, <5>2
      <4>3. ctrl'.iDir = 1
        BY <1>4, <4>2
      <4> QED BY <1>2, <1>3, <2>1, <2>3, <3>1, <4>1, <4>2, <4>3 DEF LapInv
    <3> QED BY <3>3, <3>4
  <2> QED BY <2>2, <2>3
<1> QED BY <1>6, <1>8, <1>11, <1>13, <1>14, <1>15 DEF OverlapInv

\* A process that is past init calls a ring, or, before iDir is stored, a control
\* block that refuses every call.
LEMMA CallFacts ==
  ASSUME OverlapInv, NEW p \in Procs, pc[p] \in {"write", "read"}
  PROVE  /\ ctrl.iInitFlag = 1 /\ ctrl \in Control /\ mem \in Segment
         /\ ctrl.iDir # 0 => LapInv /\ (phase # "late" => RingOK)
         /\ ctrl.iDir = 0 => /\ judegeRead(ctrl, mem).ctrl = ctrl /\ ~ judegeRead(ctrl, mem).ok
                             /\ \A n \in Nat : /\ judegeWrite(ctrl, n).ctrl = ctrl
                                               /\ ~ judegeWrite(ctrl, n).ok
<1>1. ctrl.iInitFlag = 1 /\ ctrl \in Control /\ mem \in Segment
  BY InitTypes DEF OverlapInv, PlaceInv
<1>2. ctrl.iDir # 0 => LapInv /\ (phase # "late" => RingOK)
  BY DEF OverlapInv, RingsInv
<1>3. ASSUME ctrl.iDir = 0
      PROVE  /\ judegeRead(ctrl, mem).ctrl = ctrl /\ ~ judegeRead(ctrl, mem).ok
             /\ \A n \in Nat : judegeWrite(ctrl, n).ctrl = ctrl /\ ~ judegeWrite(ctrl, n).ok
  <2>1. ctrl.readPos = StartPos /\ ctrl.writePos = StartPos
    BY <1>1, <1>3 DEF OverlapInv, UnsetInv, FreshInv
  <2>2. ~ WriterAhead(ctrl) /\ ~ ReaderAhead(ctrl)
    BY <1>3, <2>1, PosAssumption DEF WriterAhead, ReaderAhead
  <2> QED BY <2>1, <2>2, PosAssumption DEF judegeRead, judegeWrite
<1> QED BY <1>1, <1>2, <1>3

\* What every call keeps.
LEMMA CallKeeps ==
  ASSUME OverlapInv, NEW p \in Procs, pc[p] \in {"write", "read"},
         pc' \in [Procs -> Places], pc'[p] \in {"off", pc[p]},
         \A q \in Procs : q # p => pc'[q] = pc[q],
         UNCHANGED <<type, cut>>, ctrl' \in Control, mem' \in Segment,
         ctrl'.iInitFlag = 1, phase' \in {"fresh", "used", "late"},
         ctrl'.iDir = 0 => ctrl.iDir = 0 /\ phase' = phase
  PROVE  InitTypeOK' /\ PlaceInv' /\ UnsetInv'
<1>1. InitTypeOK'
  BY InitTypes, InitTypesNext DEF OverlapInv
<1>2. PlaceInv'
  <2>1. ASSUME NEW q \in Procs
        PROVE  /\ pc'[q] # "off" => type[q] \in Types(q)
               /\ pc'[q] = "write" => type[q] = 1
               /\ pc'[q] = "read" => type[q] = 2
    <3>1. /\ pc[q] # "off" => type[q] \in Types(q)
          /\ pc[q] = "write" => type[q] = 1
          /\ pc[q] = "read" => type[q] = 2
      BY DEF OverlapInv, PlaceInv
    <3>2. pc'[q] = pc[q] \/ pc'[q] = "off"
      OBVIOUS
    <3> QED BY <3>1, <3>2
  <2> QED BY <2>1 DEF PlaceInv, OverlapInv
<1>3. UnsetInv'
  <2>1. ASSUME ctrl'.iDir = 0
        PROVE  phase' = "fresh" /\ (cut' \/ \E q \in Procs : pc'[q] = "iDir")
    <3>1. ctrl.iDir = 0 /\ phase = "fresh" /\ ctrl.iInitFlag = 1
      BY <2>1 DEF OverlapInv, UnsetInv, PlaceInv
    <3>2. cut \/ \E q \in Procs : pc[q] = "iDir"
      BY <3>1 DEF OverlapInv, UnsetInv
    <3>3. CASE cut
      BY <2>1, <3>1, <3>3
    <3>4. CASE \E q \in Procs : pc[q] = "iDir"
      <4>1. PICK q \in Procs : pc[q] = "iDir"
        BY <3>4
      <4>2. q # p
        BY <4>1
      <4> QED BY <2>1, <3>1, <4>1, <4>2
    <3> QED BY <3>2, <3>3, <3>4
  <2> QED BY <2>1 DEF UnsetInv
<1> QED BY <1>1, <1>2, <1>3

\* There is only one process of a type.
LEMMA OnlyOne ==
  ASSUME OverlapInv, NEW p \in Procs, NEW q \in Procs, p # q, pc[p] # "off", pc[q] # "off"
  PROVE  type[p] # type[q]
<1>1. type[p] \in Types(p) /\ type[q] \in Types(q)
  BY DEF OverlapInv, PlaceInv
<1>2. Types(p) \cap Types(q) = {}
  BY TypesAssumption
<1> QED BY <1>1, <1>2

\* A write that is accepted: only the writer is past init, and no reader inside init has
\* its position changed.
LEMMA OverlapWrite ==
  ASSUME OverlapInv, NEW p \in Procs, NEW m \in Messages, writeData(p, m),
         phase' = IF phase = "fresh" /\ result'[1] \in {"written", "read"} THEN "used" ELSE phase,
         cut' = cut
  PROVE  OverlapInv'
<1>1. pc[p] = "write" /\ type[p] = 1 /\ pc \in [Procs -> Places]
      /\ phase \in {"fresh", "used", "late"}
  BY InitTypes DEF writeData, OverlapInv, PlaceInv
<1>2. /\ ctrl.iInitFlag = 1 /\ ctrl \in Control /\ mem \in Segment
      /\ ctrl.iDir # 0 => LapInv /\ (phase # "late" => RingOK)
      /\ ctrl.iDir = 0 => \A n \in Nat : ~ judegeWrite(ctrl, n).ok
  BY <1>1, CallFacts
<1>3. ctrl.iDir # 0
  BY <1>2, TotalType DEF writeData
<1>4. /\ ctrl' \in Control /\ mem' \in Segment /\ LapInv'
      /\ ctrl'.iInitFlag = 1 /\ ctrl'.readPos = ctrl.readPos /\ ctrl'.iDir \in {-1, 1}
  BY <1>2, <1>3, WriteKeepsLap
<1>5. phase # "late" => RingOK'
  BY <1>2, <1>3, WriteStep
<1>6. result'[1] = "written" /\ type' = type
  BY DEF writeData
<1>7. /\ phase' \in {"used", "late"} /\ (phase' # "late" => phase # "late")
  BY <1>1, <1>6
<1>8. pc' = [pc EXCEPT ![p] = "write"]
  BY <1>1 DEF writeData, AfterWrite
<1>9. pc' \in [Procs -> Places] /\ pc'[p] = pc[p] /\ \A q \in Procs : q # p => pc'[q] = pc[q]
  BY <1>1, <1>8 DEF Places
<1>10. InitTypeOK' /\ PlaceInv' /\ UnsetInv'
  BY <1>1, <1>4, <1>6, <1>7, <1>9, CallKeeps
<1>11. FreshInv' /\ RingsInv'
  BY <1>4, <1>5, <1>7 DEF FreshInv, RingsInv
<1>12. StoresInv'
  <2> SUFFICES ASSUME NEW q \in Procs, pc[q] \in Stores, q # p
               PROVE  type[q] # 1 /\ (type[q] = 2 => ctrl'.readPos = StartPos)
    BY <1>1, <1>6, <1>9 DEF StoresInv, Stores
  <2>1. type[q] # 1
    BY <1>1, OnlyOne DEF Stores
  <2> QED BY <1>2, <1>4, <2>1 DEF OverlapInv, StoresInv
<1> QED BY <1>10, <1>11, <1>12 DEF OverlapInv

\* A read that is accepted: something was written, so the writer is not inside init.
LEMMA OverlapRead ==
  ASSUME OverlapInv, NEW p \in Procs, readData(p),
         phase' = IF phase = "fresh" /\ result'[1] \in {"written", "read"} THEN "used" ELSE phase,
         cut' = cut
  PROVE  OverlapInv'
<1>1. pc[p] = "read" /\ type[p] = 2 /\ pc \in [Procs -> Places]
      /\ phase \in {"fresh", "used", "late"}
  BY InitTypes DEF readData, OverlapInv, PlaceInv
<1>2. /\ ctrl.iInitFlag = 1 /\ ctrl \in Control /\ mem \in Segment
      /\ ctrl.iDir # 0 => LapInv /\ (phase # "late" => RingOK)
      /\ ctrl.iDir = 0 => ~ judegeRead(ctrl, mem).ok
  BY <1>1, CallFacts
<1>3. ctrl.iDir # 0
  BY <1>2 DEF readData
<1>4. /\ ctrl' \in Control /\ mem' \in Segment /\ LapInv'
      /\ ctrl'.iInitFlag = 1 /\ ctrl'.iDir \in {-1, 1}
  BY <1>2, <1>3, ReadKeepsLap
<1>5. phase # "late" => RingOK'
  BY <1>2, <1>3, ReadStep
<1>6. phase # "fresh"
  <2> SUFFICES ASSUME phase = "fresh" PROVE FALSE
    OBVIOUS
  <2>1. RingOK /\ queue = <<>>
    BY <1>2, <1>3 DEF OverlapInv, FreshInv
  <2>2. PICK k \in 0 .. Len(queue) : Laps(k)
    BY <1>2, <2>1 DEF RingOK, RingInv
  <2>3. Len(queue) > 0
    BY <2>1, <2>2, ReadFacts
  <2> QED BY <2>1, <2>3
<1>7. phase' = phase /\ type' = type
  BY <1>6 DEF readData
<1>8. pc' = [pc EXCEPT ![p] = "read"]
  BY <1>1 DEF readData, AfterRead, FirstCall
<1>9. pc' \in [Procs -> Places] /\ pc'[p] = pc[p] /\ \A q \in Procs : q # p => pc'[q] = pc[q]
  BY <1>1, <1>8 DEF Places
<1>10. InitTypeOK' /\ PlaceInv' /\ UnsetInv'
  BY <1>1, <1>4, <1>7, <1>9, CallKeeps
<1>11. FreshInv' /\ RingsInv'
  BY <1>4, <1>5, <1>6, <1>7 DEF FreshInv, RingsInv
<1>12. StoresInv'
  <2> SUFFICES ASSUME NEW q \in Procs, pc[q] \in Stores, q # p
               PROVE  type[q] # 1 /\ type[q] # 2
    BY <1>1, <1>7, <1>9 DEF StoresInv, Stores
  <2>1. type[q] # 2
    BY <1>1, OnlyOne DEF Stores
  <2> QED BY <1>6, <2>1 DEF OverlapInv, StoresInv
<1> QED BY <1>10, <1>11, <1>12 DEF OverlapInv

\* A refused call changes the positions to the start of the segment at most.
LEMMA OverlapRefused ==
  ASSUME OverlapInv, NEW p \in Procs,
         (\E m \in Messages : writeDataRefused(p, m)) \/ readDataRefused(p),
         phase' = IF phase = "fresh" /\ result'[1] \in {"written", "read"} THEN "used" ELSE phase,
         cut' = cut
  PROVE  OverlapInv'
<1>1. pc[p] \in {"write", "read"} /\ pc \in [Procs -> Places]
      /\ phase \in {"fresh", "used", "late"}
  BY InitTypes DEF writeDataRefused, readDataRefused, OverlapInv
<1>2. /\ ctrl.iInitFlag = 1 /\ ctrl \in Control /\ mem \in Segment
      /\ ctrl.iDir # 0 => LapInv /\ (phase # "late" => RingOK)
      /\ ctrl.iDir = 0 => /\ judegeRead(ctrl, mem).ctrl = ctrl
                          /\ \A n \in Nat : judegeWrite(ctrl, n).ctrl = ctrl
  BY <1>1, CallFacts
<1>3. UNCHANGED <<mem, type, queue, at>> /\ pc' = [pc EXCEPT ![p] = "off"]
      /\ result'[1] \in {"no room", "empty"}
  <2>1. UNCHANGED <<mem, type, queue, at>> /\ pc' = [pc EXCEPT ![p] = "off"]
    BY DEF writeDataRefused, readDataRefused, Stop
  <2>2. result' = <<"empty">> \/ \E m \in Messages : result' = <<"no room", m>>
    BY DEF writeDataRefused, readDataRefused
  <2>3. \A m : <<"no room", m>>[1] = "no room" /\ <<"empty">>[1] = "empty"
    OBVIOUS
  <2> QED BY <2>1, <2>2, <2>3
<1>4. phase' = phase
  BY <1>3
<1>5. ctrl.iDir = 0 => ctrl' = ctrl
  BY <1>2, TotalType DEF writeDataRefused, readDataRefused
<1>6. ASSUME ctrl.iDir # 0
      PROVE  /\ ctrl' \in Control /\ LapInv' /\ ctrl'.iInitFlag = 1 /\ ctrl'.iDir \in {-1, 1}
             /\ ctrl'.readPos \in {StartPos, ctrl.readPos}
             /\ ctrl'.writePos \in {StartPos, ctrl.writePos}
             /\ phase # "late" => RingOK'
  <2>1. phase # "late" => RingOK'
    BY <1>2, <1>6, RefusedStep
  <2>2. CASE \E m \in Messages : writeDataRefused(p, m)
    BY <1>2, <1>6, <2>1, <2>2, RefusedWriteKeepsLap
  <2>3. CASE readDataRefused(p)
    BY <1>2, <1>6, <2>1, <2>3, RefusedReadKeepsLap
  <2> QED BY <2>2, <2>3
<1>7. /\ ctrl' \in Control /\ ctrl'.iInitFlag = 1
      /\ ctrl'.readPos \in {StartPos, ctrl.readPos}
      /\ ctrl'.writePos \in {StartPos, ctrl.writePos}
      /\ ctrl'.iDir = 0 => ctrl.iDir = 0
  BY <1>2, <1>5, <1>6
<1>8. pc' \in [Procs -> Places] /\ pc'[p] = "off" /\ \A q \in Procs : q # p => pc'[q] = pc[q]
  BY <1>1, <1>3 DEF Places
<1>9. InitTypeOK' /\ PlaceInv' /\ UnsetInv'
  BY <1>1, <1>2, <1>3, <1>4, <1>7, <1>8, CallKeeps
<1>10. FreshInv'
  BY <1>2, <1>3, <1>4, <1>7 DEF FreshInv, OverlapInv
<1>11. RingsInv'
  BY <1>4, <1>5, <1>6 DEF RingsInv
<1>12. StoresInv'
  <2> SUFFICES ASSUME NEW q \in Procs, pc[q] \in Stores
               PROVE  /\ type[q] = 1 => phase = "fresh"
                      /\ type[q] = 2 => ctrl'.readPos = StartPos
    BY <1>3, <1>4, <1>8 DEF StoresInv, Stores
  <2> QED BY <1>2, <1>7 DEF OverlapInv, StoresInv
<1> QED BY <1>9, <1>10, <1>11, <1>12 DEF OverlapInv

\* Every step of the processes keeps the invariant.
LEMMA OverlapStep == OverlapInv /\ [InitNext]_initVars => OverlapInv'
<1> SUFFICES ASSUME OverlapInv, [InitNext]_initVars PROVE OverlapInv'
  OBVIOUS
<1>1. ASSUME NEW p \in Procs, TestFlag(p) \/ Kill(p)
      PROVE  OverlapInv'
  BY <1>1, OverlapMoves
<1>2. ASSUME NEW p \in Procs, Store(p)
      PROVE  OverlapInv'
  BY <1>2, OverlapStore
<1>3. ASSUME NEW p \in Procs, Call(p)
      PROVE  OverlapInv'
  <2>1. /\ phase' = IF phase = "fresh" /\ result'[1] \in {"written", "read"} THEN "used" ELSE phase
        /\ cut' = cut
    BY <1>3 DEF Call
  <2>2. CASE \E t \in Types(p) : Start(p, t)
    <3>1. result' = result
      BY <2>2 DEF Start
    <3>2. phase' = phase
      BY <2>1, <3>1 DEF OverlapInv, FreshInv
    <3> QED BY <2>1, <2>2, <3>2, OverlapMoves
  <2>3. CASE \E m \in Messages : writeData(p, m)
    BY <2>1, <2>3, OverlapWrite
  <2>4. CASE (\E m \in Messages : writeDataRefused(p, m)) \/ readDataRefused(p)
    BY <2>1, <2>4, OverlapRefused
  <2>5. CASE readData(p)
    BY <2>1, <2>5, OverlapRead
  <2> QED BY <1>3, <2>2, <2>3, <2>4, <2>5 DEF Call
<1>4. CASE UNCHANGED initVars
  <2>1. UNCHANGED <<ctrl, mem, queue, at, result, phase, pc, type, cut>>
    BY <1>4 DEF initVars, vars
  <2>2. \A p \in Procs : pc'[p] \in {"write", "read"} => ctrl.iInitFlag = 1
    BY <2>1 DEF OverlapInv, PlaceInv
  <2>3. FreshInv' /\ RingsInv'
    BY <2>1, <2>2, OverlapFrame
  <2> QED BY <2>1, <2>3 DEF OverlapInv, InitTypeOK, PlaceInv, UnsetInv, StoresInv
<1> QED BY <1>1, <1>2, <1>3, <1>4 DEF InitNext

\* init is safe although it takes no lock, for every segment and all messages, and
\* wherever a writer and a reader are interrupted, killed and started again: past
\* init both positions are in the segment, a control block marked initialised is
\* sound unless a process was killed before its last store, and messages are lost
\* only when a process that found the flag unset stores into a ring in use.
THEOREM InitSafe == InitSpec => []InitIsSafe
<1>1. OverlapInv => InitIsSafe
  <2> SUFFICES ASSUME OverlapInv PROVE InitIsSafe
    OBVIOUS
  <2>1. InitTypeOK /\ ctrl \in Control
    BY InitTypes DEF OverlapInv
  <2>2. ctrl.iInitFlag = 1 => ctrl.readPos \in StartPos .. EndPos /\ ctrl.writePos \in StartPos .. EndPos
    BY PosAssumption DEF OverlapInv, RingsInv, LapInv, UnsetInv, FreshInv
  <2>3. PositionsAreSet
    BY <2>2 DEF PositionsAreSet, OverlapInv, PlaceInv
  <2>4. SoundOnceInitialised
    <3> SUFFICES ASSUME ~ cut, \A p \in Procs : pc[p] \notin Stores, ctrl.iInitFlag = 1
                 PROVE  DirTellsLap
      BY DEF SoundOnceInitialised, DirTellsLap
    <3>1. ctrl.iDir # 0
      BY DEF OverlapInv, UnsetInv, Stores
    <3> QED BY <2>1, <3>1, LapTells DEF OverlapInv, RingsInv
  <2>5. OnlyLateInitLoses
    <3> SUFFICES ASSUME phase # "late" PROVE Layout
      BY DEF OnlyLateInitLoses
    <3>1. CASE ctrl.iDir # 0
      BY <3>1, LayoutHolds DEF OverlapInv, RingsInv
    <3>2. CASE ctrl.iDir = 0
      BY <3>2 DEF OverlapInv, UnsetInv, FreshInv, Layout
    <3> QED BY <3>1, <3>2
  <2> QED BY <2>1, <2>3, <2>4, <2>5 DEF InitIsSafe
<1> QED BY <1>1, OverlapInit, OverlapStep, PTL DEF InitSpec

----------------------------------------------------------------------------
(***************************************************************************)
(* ShmRace: a writer and a reader whose calls overlap, a load, a store or  *)
(* a memcpy at a time.                                                     *)
(*                                                                         *)
(* In the middle of a call the control block does not tell which lap the   *)
(* writer is in: between the store of a position and that of iDir the sign *)
(* is the old one.  Lap says it from the places of the two processes, and  *)
(* the messages lie as in a ring at rest (Lies), but for the message that  *)
(* is being copied behind writePos and the one that is being cleared.      *)
(* Each process decides by values the other may change, and what it has    *)
(* decided stays true (WriterKnows, ReaderKnows).  All this fails when     *)
(* both processes are wrapping at once; but then both positions are at the *)
(* start of the segment, and each process is refused and exits (Doomed).   *)
(***************************************************************************)

\* The segment of ShmRace.
RaceCells == StartPos .. RaceEnd - 1

\* Messages i .. j of q lie one after the other in the cells from a to b.
Tile(q, p, i, j, a, b) ==
    /\ i > j => a = b
    /\ i <= j => p[i] = a /\ p[j] + Total(q[j]) = b
    /\ \A x \in i .. j : a <= p[x] /\ p[x] + Total(q[x]) <= b
    /\ \A x \in i .. j : x < j => p[x + 1] = p[x] + Total(q[x])
    /\ \A x, y \in i .. j : x < y => p[x] + Total(q[x]) <= p[y]

\* The whole of message m is at a.
Copied(f, a, m) == f[a] = m /\ \A x \in a + 1 .. a + Total(m) - 1 : f[x] = Body

\* How the messages of q lie in the memory f, at p: k of them from readPos r on to e, in
\* the lap of the reader, the others from the start to writePos w.  The memory of the
\* messages before number o is cleared already, and b is where one is being written.
Lies(f, q, p, k, e, r, w, lap, o, b) ==
    /\ p \in Seq(Nat) /\ Len(p) = Len(q) /\ k \in 0 .. Len(q) /\ e \in StartPos .. RaceEnd
    /\ lap = "same" => k = Len(q) /\ e = w
    /\ Tile(q, p, 1, k, r, e)
    /\ lap = "next" => Tile(q, p, k + 1, Len(q), StartPos, w)
    /\ \A i \in o .. Len(q) : Copied(f, p[i], q[i])
    /\ \A x \in RaceCells : f[x] \in Messages => x = b \/ \E i \in o .. Len(q) : x = p[i]

\* A process is between the store of its position and that of iDir.
Wraps(at0) == at0 \in {"load", "store"}

\* Whether the writer is in the lap of the reader or in the next, while at most one
\* of the processes wraps.
Lap == IF Wraps(wpc) THEN "next" ELSE IF Wraps(rpc) THEN "same"
       ELSE IF ctrl2.iDir = 1 THEN "same" ELSE "next"

Oldest == IF rpc = "advance" THEN 2 ELSE 1

Busy == IF wpc \in {"content", "advance"} THEN ctrl2.writePos ELSE -1

RaceTypes ==
    /\ ctrl2 \in Control /\ ctrl2.iInitFlag = 1 /\ ctrl2.iDir \in {-1, 1}
    /\ ctrl2.readPos \in StartPos .. RaceEnd /\ ctrl2.writePos \in StartPos .. RaceEnd
    /\ mem2 \in [RaceCells -> Messages \cup {Zero, Body}]
    /\ queue2 \in Seq(Messages) /\ msg \in Messages
    /\ wpc \in {"idle", "off", "test", "dir", "equal", "wrap", "load", "store", "room", "enough",
                "head", "content", "advance"}
    /\ rpc \in {"idle", "off", "test", "dir", "equal", "lap", "wrap", "load", "store", "more",
                "head", "clear", "advance"}
    /\ wDir \in {-1, 1} /\ rDir \in {-1, 1}
    /\ ~together => (wpc = "idle" \/ rpc = "idle") /\ wpc # "off" /\ rpc # "off"

\* Both processes were wrapping at the same time: they will exit.
Doomed == /\ together
          /\ ctrl2.readPos = StartPos /\ ctrl2.writePos = StartPos
          /\ wpc \in {"load", "store", "room", "off"} /\ rpc \in {"load", "store", "more", "off"}

\* What the processes know of each other while at most one of them wraps.
WriterKnows ==
    /\ Wraps(wpc) => ctrl2.iDir = 1 /\ ctrl2.writePos = StartPos
    /\ wpc = "store" => wDir = 1
    /\ wpc \in {"equal", "wrap"} => Lap = "same"
    /\ wpc \in {"head", "content", "advance"} =>
          /\ ctrl2.writePos + Total(msg) <= RaceEnd
          /\ Lap = "next" => ctrl2.writePos + Total(msg) <= ctrl2.readPos
    /\ wpc = "advance" => Copied(mem2, ctrl2.writePos, msg)

ReaderKnows(k) ==
    /\ Wraps(rpc) => ctrl2.iDir = -1 /\ ctrl2.readPos = StartPos
    /\ rpc = "store" => rDir = -1
    /\ rpc \in {"equal", "lap", "wrap"} => Lap = "next"
    /\ rpc = "wrap" => k = 0
    /\ rpc \in {"head", "clear", "advance"} => k > 0
    /\ rpc \in {"clear", "advance"} => rLen = Total(queue2[1])

\* How the messages lie.
Laid(k, e, p) ==
    /\ ReaderKnows(k)
    /\ Lies(mem2, queue2, p, k, e, ctrl2.readPos, ctrl2.writePos, Lap, Oldest, Busy)

Regular == /\ ~ (Wraps(wpc) /\ Wraps(rpc))
           /\ Lap = "same" => ctrl2.readPos <= ctrl2.writePos
           /\ Lap = "next" => ctrl2.writePos <= ctrl2.readPos
           /\ WriterKnows
           /\ \E k, e, p : Laid(k, e, p)

RaceInv == RaceTypes /\ Race!Fifo /\ (Doomed \/ Regular)

\* A message behind the others: they lie as before.
LEMMA TileAppend ==
  ASSUME NEW q \in Seq(Messages), NEW m \in Messages, NEW p \in Seq(Nat), Len(p) = Len(q),
         NEW i \in Nat, 1 <= i, i <= Len(q) + 1, NEW a \in Nat, NEW b \in Nat,
         Tile(q, p, i, Len(q), a, b)
  PROVE  a <= b /\ Tile(Append(q, m), Append(p, b), i, Len(q) + 1, a, b + Total(m))
<1> DEFINE n == Len(q)
           q1 == Append(q, m)
           p1 == Append(p, b)
<1>1. n \in Nat /\ Total(m) \in Nat
  BY TotalType
<1>2. \A x \in i .. n : /\ x \in 1 .. n /\ q[x] \in Messages /\ p[x] \in Nat
                        /\ q1[x] = q[x] /\ p1[x] = p[x]
  BY <1>1
<1>3. q1[n + 1] = m /\ p1[n + 1] = b
  BY <1>1
<1>4. \A x \in i .. n : Total(q[x]) \in Nat
  BY <1>2, TotalType
<1> HIDE DEF n, q1, p1
<1>5. /\ i > n => a = b
      /\ i <= n => p[i] = a /\ p[n] + Total(q[n]) = b
      /\ \A x \in i .. n : a <= p[x] /\ p[x] + Total(q[x]) <= b
      /\ \A x \in i .. n : x < n => p[x + 1] = p[x] + Total(q[x])
      /\ \A x, y \in i .. n : x < y => p[x] + Total(q[x]) <= p[y]
  BY DEF Tile, n
<1>6. a <= b
  BY <1>1, <1>2, <1>4, <1>5
<1>7. i <= n + 1
  BY DEF n
<1>8. p1[i] = a
  BY <1>1, <1>2, <1>3, <1>5, <1>7
<1>9. \A x \in i .. n + 1 : x # n + 1 => x \in i .. n
  BY <1>1
<1>10. \A x \in i .. n + 1 : a <= p1[x] /\ p1[x] + Total(q1[x]) <= b + Total(m)
  <2> SUFFICES ASSUME NEW x \in i .. n + 1
               PROVE  a <= p1[x] /\ p1[x] + Total(q1[x]) <= b + Total(m)
    OBVIOUS
  <2>1. CASE x = n + 1
    BY <1>1, <1>3, <1>6, <2>1
  <2>2. CASE x # n + 1
    <3>1. x \in i .. n /\ p1[x] = p[x] /\ q1[x] = q[x]
      BY <1>2, <1>9, <2>2
    <3>2. a <= p[x] /\ p[x] + Total(q[x]) <= b /\ p[x] \in Nat /\ Total(q[x]) \in Nat
      BY <1>2, <1>4, <1>5, <3>1
    <3>3. p[x] + Total(q[x]) <= b + Total(m)
      BY <1>1, <3>2
    <3> QED BY <3>1, <3>2, <3>3
  <2> QED BY <2>1, <2>2
<1>11. \A x \in i .. n + 1 : x < n + 1 => p1[x + 1] = p1[x] + Total(q1[x])
  <2> SUFFICES ASSUME NEW x \in i .. n + 1, x < n + 1
               PROVE  p1[x + 1] = p1[x] + Total(q1[x])
    OBVIOUS
  <2>1. x \in i .. n /\ p1[x] = p[x] /\ q1[x] = q[x]
    BY <1>1, <1>2, <1>9
  <2>2. CASE x = n
    BY <1>1, <1>3, <1>5, <2>1, <2>2
  <2>3. CASE x < n
    <3>1. x + 1 \in i .. n
      BY <1>1, <2>1, <2>3
    <3> QED BY <1>2, <1>5, <2>1, <2>3, <3>1
  <2> QED BY <1>1, <2>1, <2>2, <2>3
<1>12. \A x, y \in i .. n + 1 : x < y => p1[x] + Total(q1[x]) <= p1[y]
  <2> SUFFICES ASSUME NEW x \in i .. n + 1, NEW y \in i .. n + 1, x < y
               PROVE  p1[x] + Total(q1[x]) <= p1[y]
    OBVIOUS
  <2>1. x \in i .. n /\ p1[x] = p[x] /\ q1[x] = q[x]
    BY <1>1, <1>2, <1>9
  <2> QED BY <1>1, <1>2, <1>3, <1>5, <1>9, <2>1
<1>13. Tile(q1, p1, i, n + 1, a, b + Total(m))
  BY <1>1, <1>3, <1>7, <1>8, <1>10, <1>11, <1>12 DEF Tile
<1> QED BY <1>6, <1>13 DEF n, q1, p1

\* The messages of the other lap are not touched by a new one.
LEMMA TileBefore ==
  ASSUME NEW q \in Seq(Messages), NEW m \in Messages, NEW p \in Seq(Nat), Len(p) = Len(q),
         NEW k \in 0 .. Len(q), NEW a, NEW b, NEW w \in Nat, Tile(q, p, 1, k, a, b)
  PROVE  Tile(Append(q, m), Append(p, w), 1, k, a, b)
<1>1. \A x \in 1 .. k : Append(q, m)[x] = q[x] /\ Append(p, w)[x] = p[x]
  OBVIOUS
<1>2. k \in Nat
  OBVIOUS
<1>3. \A x \in 1 .. k : x < k => Append(p, w)[x + 1] = p[x + 1]
  OBVIOUS
<1> DEFINE q1 == Append(q, m)
           p1 == Append(p, w)
<1> HIDE DEF q1, p1
<1>4. /\ \A x \in 1 .. k : q1[x] = q[x] /\ p1[x] = p[x]
      /\ \A x \in 1 .. k : x < k => p1[x + 1] = p[x + 1]
  BY <1>1, <1>3 DEF q1, p1
<1>5. 1 <= k => 1 \in 1 .. k /\ k \in 1 .. k
  BY <1>2
<1> QED BY <1>2, <1>4, <1>5 DEF Tile, q1, p1

\* The oldest message is gone: the others lie as before.
LEMMA TileTail ==
  ASSUME NEW q \in Seq(Messages), NEW p \in Seq(Nat), Len(p) = Len(q), q # <<>>,
         NEW i \in Nat, 2 <= i, NEW j \in Nat, j <= Len(q), NEW a, NEW b,
         Tile(q, p, i, j, a, b)
  PROVE  Tile(Tail(q), Tail(p), i - 1, j - 1, a, b)
<1> DEFINE n == Len(q)
           q1 == Tail(q)
           p1 == Tail(p)
<1>1. n \in Nat /\ n > 0
  OBVIOUS
<1>2. \A x \in 1 .. n - 1 : q1[x] = q[x + 1] /\ p1[x] = p[x + 1]
  BY <1>1
<1> HIDE DEF n, q1, p1
<1>3. \A x \in i - 1 .. j - 1 : /\ x + 1 \in i .. j
                                /\ q1[x] = q[x + 1] /\ p1[x] = p[x + 1]
  <2> SUFFICES ASSUME NEW x \in i - 1 .. j - 1
               PROVE  x + 1 \in i .. j /\ q1[x] = q[x + 1] /\ p1[x] = p[x + 1]
    OBVIOUS
  <2>1. x \in 1 .. n - 1 /\ x + 1 \in i .. j
    BY <1>1 DEF n
  <2> QED BY <1>2, <2>1, Zenon
<1>4. \A x \in i - 1 .. j - 1 : x < j - 1 => p1[x + 1] = p[x + 2] /\ x + 2 = (x + 1) + 1
  BY <1>1, <1>2 DEF n
<1>5. /\ i > j => a = b
      /\ i <= j => p[i] = a /\ p[j] + Total(q[j]) = b
  BY DEF Tile
<1>6. i - 1 <= j - 1 => p1[i - 1] = p[i] /\ p1[j - 1] = p[j] /\ q1[j - 1] = q[j]
  <2> SUFFICES ASSUME i - 1 <= j - 1
               PROVE  p1[i - 1] = p[i] /\ p1[j - 1] = p[j] /\ q1[j - 1] = q[j]
    OBVIOUS
  <2>1. i - 1 \in i - 1 .. j - 1 /\ j - 1 \in i - 1 .. j - 1
    OBVIOUS
  <2>2. (i - 1) + 1 = i /\ (j - 1) + 1 = j
    OBVIOUS
  <2>3. p1[i - 1] = p[(i - 1) + 1] /\ p1[j - 1] = p[(j - 1) + 1] /\ q1[j - 1] = q[(j - 1) + 1]
    BY <1>3, <2>1
  <2> QED BY <2>2, <2>3
<1>7. \A x \in i - 1 .. j - 1 : a <= p1[x] /\ p1[x] + Total(q1[x]) <= b
  BY <1>3 DEF Tile
<1>8. \A x \in i - 1 .. j - 1 : x < j - 1 => p1[x + 1] = p1[x] + Total(q1[x])
  BY <1>3, <1>4 DEF Tile
<1>9. \A x, y \in i - 1 .. j - 1 : x < y => p1[x] + Total(q1[x]) <= p1[y]
  BY <1>3 DEF Tile
<1>10. (i - 1 > j - 1 <=> i > j) /\ (i - 1 <= j - 1 <=> i <= j)
  OBVIOUS
<1> QED BY <1>5, <1>6, <1>7, <1>8, <1>9, <1>10 DEF Tile, q1, p1

\* Without its first message the rest of a lap starts behind it.
LEMMA TileDrop ==
  ASSUME NEW q \in Seq(Messages), NEW p \in Seq(Nat), Len(p) = Len(q),
         NEW k \in 1 .. Len(q), NEW a \in Nat, NEW b \in Nat, Tile(q, p, 1, k, a, b)
  PROVE  /\ Tile(q, p, 2, k, a + Total(q[1]), b)
         /\ p[1] = a /\ a + Total(q[1]) <= b
<1>1. k \in Nat /\ 1 \in 1 .. k
  OBVIOUS
<1>2. \A x \in 2 .. k : x \in 1 .. k /\ 1 < x
  OBVIOUS
<1>3. /\ p[1] = a /\ p[k] + Total(q[k]) = b
      /\ \A x \in 1 .. k : a <= p[x] /\ p[x] + Total(q[x]) <= b
      /\ \A x \in 1 .. k : x < k => p[x + 1] = p[x] + Total(q[x])
      /\ \A x, y \in 1 .. k : x < y => p[x] + Total(q[x]) <= p[y]
  BY <1>1 DEF Tile
<1>4. 2 > k => k = 1
  OBVIOUS
<1>5. 2 <= k => p[2] = p[1] + Total(q[1])
  BY <1>1, <1>3
<1>6. \A x \in 2 .. k : a + Total(q[1]) <= p[x] /\ p[x] + Total(q[x]) <= b
  BY <1>1, <1>2, <1>3
<1> QED BY <1>1, <1>2, <1>3, <1>4, <1>5, <1>6 DEF Tile

\* Where the messages are while they lie in the segment.
Placed(q, p, k, e, r, w, lap) ==
    /\ p \in Seq(Nat) /\ Len(p) = Len(q) /\ Len(q) \in Nat /\ k \in 0 .. Len(q)
    /\ e \in StartPos .. RaceEnd
    /\ e \in Nat /\ r \in Nat /\ w \in Nat
    /\ \A i \in 1 .. Len(q) : q[i] \in Messages /\ Total(q[i]) \in Nat /\ HeadSize < Total(q[i])
    /\ \A i \in 1 .. Len(q) : p[i] \in Nat
    /\ \A i \in 1 .. Len(q) : StartPos <= p[i] /\ p[i] + Total(q[i]) <= RaceEnd
    /\ \A i \in 1 .. Len(q) : i <= k => r <= p[i] /\ p[i] + Total(q[i]) <= e
    /\ \A i \in 1 .. Len(q) : i > k => lap = "next" /\ p[i] + Total(q[i]) <= w

\* So they are when they lie in the segment.
LEMMA LiesFacts ==
  ASSUME NEW f, NEW q \in Seq(Messages), NEW p, NEW k, NEW e, NEW r \in StartPos .. RaceEnd,
         NEW w \in StartPos .. RaceEnd, NEW lap \in {"same", "next"}, NEW o, NEW b,
         Lies(f, q, p, k, e, r, w, lap, o, b), lap = "next" => w <= r
  PROVE  Placed(q, p, k, e, r, w, lap)
<1>1. /\ p \in Seq(Nat) /\ Len(p) = Len(q) /\ Len(q) \in Nat /\ k \in 0 .. Len(q)
      /\ e \in StartPos .. RaceEnd
  BY DEF Lies
<1>2. StartPos \in Nat /\ RaceEnd \in Nat /\ HeadSize \in Nat
  BY PosAssumption, RaceAssumption
<1>3. e \in Nat /\ r \in Nat /\ w \in Nat
  BY <1>1, <1>2
<1>4. \A i \in 1 .. Len(q) : q[i] \in Messages
  BY <1>1
<1>5. \A i \in 1 .. Len(q) : Total(q[i]) \in Nat /\ HeadSize < Total(q[i])
  BY <1>4, TotalType
<1>6. \A i \in 1 .. Len(q) : p[i] \in Nat
  BY <1>1
<1>7. \A i \in 1 .. Len(q) : i <= k => i \in 1 .. k
  BY <1>1
<1>8. \A i \in 1 .. Len(q) : i <= k => r <= p[i] /\ p[i] + Total(q[i]) <= e
  BY <1>7 DEF Lies, Tile
<1>9. \A i \in 1 .. Len(q) : i > k => lap = "next" /\ i \in k + 1 .. Len(q)
  BY <1>1 DEF Lies
<1>10. \A i \in 1 .. Len(q) : i > k => StartPos <= p[i] /\ p[i] + Total(q[i]) <= w
  BY <1>9 DEF Lies, Tile
<1>11. \A i \in 1 .. Len(q) : StartPos <= p[i] /\ p[i] + Total(q[i]) <= RaceEnd
  <2> SUFFICES ASSUME NEW i \in 1 .. Len(q)
               PROVE  StartPos <= p[i] /\ p[i] + Total(q[i]) <= RaceEnd
    OBVIOUS
  <2> DEFINE a == p[i]
             c == Total(q[i])
  <2>0. /\ a \in Nat /\ c \in Nat /\ i \in Nat /\ k \in Nat /\ StartPos <= r /\ e <= RaceEnd
        /\ i <= k => r <= a /\ a + c <= e
        /\ i > k => StartPos <= a /\ a + c <= w
    BY <1>1, <1>5, <1>6, <1>8, <1>10
  <2> HIDE DEF a, c
  <2>1. i <= k => StartPos <= a /\ a + c <= RaceEnd
    BY <1>2, <1>3, <2>0
  <2>2. i > k => StartPos <= a /\ a + c <= RaceEnd
    BY <1>2, <1>3, <2>0
  <2>3. i <= k \/ i > k
    BY <2>0
  <2>4. StartPos <= a /\ a + c <= RaceEnd
    BY <2>1, <2>2, <2>3, Zenon
  <2> QED BY <2>4 DEF a, c
<1> QED BY <1>1, <1>3, <1>4, <1>5, <1>6, <1>8, <1>9, <1>10, <1>11 DEF Placed

\* From f to g only cells of a message m at w changed, and no head came behind w.
OnlyBehind(f, g, w, m) ==
    /\ \A x \in RaceCells : x < w \/ x >= w + Total(m) => g[x] = f[x]
    /\ \A x \in RaceCells : w < x /\ g[x] \in Messages => f[x] \in Messages

\* There is room for a message m from w, before the end and, in the second lap, before
\* r; the place b which is being written is w, or there is none.
Ahead(r, w, lap, b, m) ==
    /\ b = w \/ b = -1
    /\ lap \in {"same", "next"}
    /\ w + Total(m) <= RaceEnd
    /\ lap = "next" => w <= r /\ w + Total(m) <= r

\* WHead and WContent: what the writer copies behind writePos touches no message.
LEMMA WriterKeeps ==
  ASSUME NEW f, NEW g, NEW q \in Seq(Messages), NEW p, NEW k, NEW e,
         NEW r \in StartPos .. RaceEnd, NEW w \in StartPos .. RaceEnd,
         NEW lap, NEW o \in {1, 2}, NEW b, NEW m \in Messages,
         Lies(f, q, p, k, e, r, w, lap, o, b), Ahead(r, w, lap, b, m), OnlyBehind(f, g, w, m)
  PROVE  Lies(g, q, p, k, e, r, w, lap, o, w)
<1>0. /\ lap \in {"same", "next"} /\ (b = w \/ b = -1)
      /\ w + Total(m) <= RaceEnd /\ (lap = "next" => w <= r /\ w + Total(m) <= r)
  BY DEF Ahead
<1>1. /\ p \in Seq(Nat) /\ Len(p) = Len(q) /\ Len(q) \in Nat /\ k \in 0 .. Len(q)
      /\ e \in StartPos .. RaceEnd
      /\ e \in Nat /\ r \in Nat /\ w \in Nat
      /\ \A i \in 1 .. Len(q) : q[i] \in Messages /\ Total(q[i]) \in Nat /\ HeadSize < Total(q[i])
      /\ \A i \in 1 .. Len(q) : p[i] \in Nat
      /\ \A i \in 1 .. Len(q) : StartPos <= p[i] /\ p[i] + Total(q[i]) <= RaceEnd
      /\ \A i \in 1 .. Len(q) : i <= k => r <= p[i] /\ p[i] + Total(q[i]) <= e
      /\ \A i \in 1 .. Len(q) : i > k => lap = "next" /\ p[i] + Total(q[i]) <= w
  <2>1. Placed(q, p, k, e, r, w, lap)
    BY <1>0, Zenon, LiesFacts
  <2> QED BY <2>1 DEF Placed
<1>2. StartPos \in Nat /\ RaceEnd \in Nat /\ HeadSize \in Nat /\ Total(m) \in Nat /\ HeadSize < Total(m)
  BY PosAssumption, RaceAssumption, TotalType
<1>3. lap = "same" => e = w
  BY DEF Lies
<1>4. \A i \in 1 .. Len(q) : p[i] + Total(q[i]) <= w \/ w + Total(m) <= p[i]
  <2> SUFFICES ASSUME NEW i \in 1 .. Len(q)
               PROVE  p[i] + Total(q[i]) <= w \/ w + Total(m) <= p[i]
    OBVIOUS
  <2> DEFINE a == p[i]
             c == Total(q[i])
  <2>0. /\ a \in Nat /\ c \in Nat /\ i \in Nat /\ k \in Nat
        /\ i <= k => r <= a /\ a + c <= e
        /\ i > k => a + c <= w
    BY <1>1
  <2> HIDE DEF a, c
  <2>1. i <= k /\ lap = "same" => a + c <= w
    BY <1>3, <2>0, Zenon
  <2>2. i <= k /\ lap = "next" => w + Total(m) <= r /\ r <= a
    BY <1>0, <2>0, Zenon
  <2>3. w \in Nat /\ r \in Nat /\ Total(m) \in Nat
    BY <1>1, <1>2
  <2>4. w + Total(m) <= r /\ r <= a => w + Total(m) <= a
    BY <2>0, <2>3
  <2>5. i <= k \/ i > k
    BY <2>0
  <2>6. a + c <= w \/ w + Total(m) <= a
    BY <1>0, <2>0, <2>1, <2>2, <2>4, <2>5, Zenon
  <2> QED BY <2>6 DEF a, c
<1>5. \A i \in o .. Len(q) : Copied(g, p[i], q[i])
  <2> SUFFICES ASSUME NEW i \in o .. Len(q)
               PROVE  Copied(g, p[i], q[i])
    OBVIOUS
  <2>1. i \in 1 .. Len(q)
    BY <1>1
  <2> DEFINE a == p[i]
             c == Total(q[i])
  <2>0. /\ a \in Nat /\ c \in Nat /\ HeadSize < c /\ StartPos <= a /\ a + c <= RaceEnd
        /\ a + c <= w \/ w + Total(m) <= a
    BY <1>1, <1>4, <2>1, Zenon
  <2> HIDE DEF a, c
  <2>2. /\ a \in Nat /\ c \in Nat /\ c > 0 /\ StartPos <= a /\ a + c <= RaceEnd
        /\ a + c <= w \/ w + Total(m) <= a
    BY <1>2, <2>0
  <2>3. \A x \in a .. a + c - 1 : x \in RaceCells /\ (x < w \/ x >= w + Total(m))
    <3> SUFFICES ASSUME NEW x \in a .. a + c - 1
                 PROVE  x \in RaceCells /\ (x < w \/ x >= w + Total(m))
      OBVIOUS
    <3>1. x \in Nat /\ a <= x /\ x < a + c
      BY <2>2
    <3>2. x \in RaceCells
      BY <1>2, <2>2, <3>1 DEF RaceCells
    <3>3. x < w \/ x >= w + Total(m)
      BY <1>1, <1>2, <2>2, <3>1
    <3> QED BY <3>2, <3>3
  <2>4. /\ a \in a .. a + c - 1
        /\ \A x \in a + 1 .. a + c - 1 : x \in a .. a + c - 1
    BY <2>2
  <2>5. \A x \in p[i] .. p[i] + Total(q[i]) - 1 : g[x] = f[x]
    BY <2>3 DEF a, c, OnlyBehind
  <2>6. /\ p[i] \in p[i] .. p[i] + Total(q[i]) - 1
        /\ \A x \in p[i] + 1 .. p[i] + Total(q[i]) - 1 : x \in p[i] .. p[i] + Total(q[i]) - 1
    BY <2>4 DEF a, c
  <2>7. Copied(f, p[i], q[i])
    BY DEF Lies
  <2> QED BY <2>5, <2>6, <2>7 DEF Copied
<1>6. \A x \in RaceCells : g[x] \in Messages => x = w \/ \E i \in o .. Len(q) : x = p[i]
  <2> SUFFICES ASSUME NEW x \in RaceCells, g[x] \in Messages, x # w
               PROVE  \E i \in o .. Len(q) : x = p[i]
    OBVIOUS
  <2>1. x < w \/ w < x
    BY <1>1, <1>2 DEF RaceCells
  <2>2. f[x] \in Messages
    BY <2>1 DEF OnlyBehind
  <2>3. x # b
    BY <1>0, <1>2 DEF RaceCells
  <2> QED BY <2>2, <2>3 DEF Lies
<1> QED BY <1>5, <1>6 DEF Lies

\* WAdvance: the message that was copied is the youngest.
LEMMA AppendLies ==
  ASSUME NEW f, NEW q \in Seq(Messages), NEW p, NEW k, NEW e,
         NEW r \in StartPos .. RaceEnd, NEW w \in StartPos .. RaceEnd,
         NEW lap \in {"same", "next"}, NEW o \in {1, 2}, NEW m \in Messages,
         Lies(f, q, p, k, e, r, w, lap, o, w), lap = "next" => w <= r,
         o = 2 => k > 0, w + Total(m) <= RaceEnd, Copied(f, w, m)
  PROVE  Lies(f, Append(q, m), Append(p, w), IF lap = "same" THEN k + 1 ELSE k,
              IF lap = "same" THEN w + Total(m) ELSE e, r, w + Total(m), lap, o, -1)
<1> DEFINE n == Len(q)
           q1 == Append(q, m)
           p1 == Append(p, w)
           k1 == IF lap = "same" THEN k + 1 ELSE k
           e1 == IF lap = "same" THEN w + Total(m) ELSE e
<1>1. /\ p \in Seq(Nat) /\ Len(p) = n /\ n \in Nat /\ k \in 0 .. n
      /\ e \in StartPos .. RaceEnd /\ e \in Nat /\ r \in Nat /\ w \in Nat
  <2>1. Placed(q, p, k, e, r, w, lap)
    BY Zenon, LiesFacts
  <2> QED BY <2>1 DEF Placed
<1>2. StartPos \in Nat /\ RaceEnd \in Nat /\ HeadSize \in Nat /\ Total(m) \in Nat /\ HeadSize < Total(m)
  BY PosAssumption, RaceAssumption, TotalType
<1>3. p1 \in Seq(Nat) /\ Len(p1) = n + 1 /\ Len(q1) = n + 1
  <2>1. p1 \in Seq(Nat) /\ Len(p1) = n + 1
    BY <1>1, AppendProperties
  <2>2. Len(q1) = n + 1
    BY AppendProperties
  <2> QED BY <2>1, <2>2
<1>4. k1 \in 0 .. n + 1 /\ e1 \in StartPos .. RaceEnd
  BY <1>1, <1>2
<1>5. lap = "same" => k = n /\ e = w
  BY DEF Lies
<1>6. /\ \A i \in 1 .. n : q1[i] = q[i] /\ p1[i] = p[i]
      /\ q1[n + 1] = m /\ p1[n + 1] = w
  <2>1. (\A i \in 1 .. n : q1[i] = q[i]) /\ q1[n + 1] = m
    BY AppendProperties
  <2>2. (\A i \in 1 .. n : p1[i] = p[i]) /\ p1[n + 1] = w
    BY <1>1, AppendProperties
  <2> QED BY <2>1, <2>2
<1>7. Tile(q1, p1, 1, k1, r, e1)
  <2>1. CASE lap = "same"
    <3>1. Tile(q, p, 1, n, r, w)
      BY <1>5, <2>1 DEF Lies
    <3>2. Tile(q1, p1, 1, n + 1, r, w + Total(m))
      BY <1>1, <3>1, TileAppend
    <3> QED BY <1>5, <2>1, <3>2
  <2>2. CASE lap = "next"
    <3>1. Tile(q, p, 1, k, r, e)
      BY DEF Lies
    <3>2. Tile(q1, p1, 1, k, r, e)
      BY <1>1, <3>1, TileBefore
    <3> QED BY <2>2, <3>2
  <2> QED BY <2>1, <2>2
<1>8. lap = "next" => Tile(q1, p1, k1 + 1, n + 1, StartPos, w + Total(m))
  <2> SUFFICES ASSUME lap = "next"
               PROVE  Tile(q1, p1, k + 1, n + 1, StartPos, w + Total(m))
    OBVIOUS
  <2>1. Tile(q, p, k + 1, n, StartPos, w)
    BY DEF Lies
  <2>2. k + 1 \in Nat /\ 1 <= k + 1 /\ k + 1 <= n + 1
    BY <1>1
  <2> QED BY <1>1, <1>2, <2>1, <2>2, TileAppend
<1> HIDE DEF n, q1, p1, k1, e1
<1>9. \A i \in o .. n + 1 : i = n + 1 \/ (i \in o .. n /\ i \in 1 .. n)
  BY <1>1
<1>10. \A i \in o .. n : Copied(f, p[i], q[i])
  BY DEF Lies, n
<1>11. \A i \in o .. n + 1 : Copied(f, p1[i], q1[i])
  BY <1>6, <1>9, <1>10
<1>12. \A x \in RaceCells : f[x] \in Messages => x = -1 \/ \E i \in o .. n + 1 : x = p1[i]
  <2> SUFFICES ASSUME NEW x \in RaceCells, f[x] \in Messages
               PROVE  \E i \in o .. n + 1 : x = p1[i]
    OBVIOUS
  <2>1. CASE x = w
    <3>1. n + 1 \in o .. n + 1
      BY <1>1
    <3> QED BY <1>6, <2>1, <3>1
  <2>2. CASE x # w
    <3>1. PICK i \in o .. n : x = p[i]
      BY <2>2 DEF Lies, n
    <3>2. i \in 1 .. n /\ i \in o .. n + 1
      BY <1>1, <3>1
    <3> QED BY <1>6, <3>1, <3>2
  <2> QED BY <2>1, <2>2
<1>13. lap = "same" => k1 = n + 1 /\ e1 = w + Total(m)
  BY <1>5 DEF k1, e1
<1>14. Lies(f, q1, p1, k1, e1, r, w + Total(m), lap, o, -1)
  BY <1>3, <1>4, <1>7, <1>8, <1>11, <1>12, <1>13 DEF Lies
<1> QED BY <1>14 DEF q1, p1, k1, e1

\* WWrap: the writer goes to the next lap.
LEMMA WrapWriterLies ==
  ASSUME NEW f, NEW q \in Seq(Messages), NEW p, NEW k, NEW e, NEW r, NEW w, NEW o, NEW b,
         Lies(f, q, p, k, e, r, w, "same", o, b)
  PROVE  Lies(f, q, p, k, e, r, StartPos, "next", o, b)
<1>1. Len(q) \in Nat /\ k = Len(q)
  BY DEF Lies
<1>2. k + 1 > Len(q) /\ ~ (k + 1 <= Len(q)) /\ k + 1 .. Len(q) = {}
  BY <1>1
<1>3. Tile(q, p, k + 1, Len(q), StartPos, StartPos)
  BY <1>2 DEF Tile
<1> QED BY <1>3 DEF Lies

\* RWrap: the reader has read its lap and follows the writer.
LEMMA WrapReaderLies ==
  ASSUME NEW f, NEW q \in Seq(Messages), NEW p, NEW e, NEW r,
         NEW w \in StartPos .. RaceEnd, NEW o, NEW b,
         Lies(f, q, p, 0, e, r, w, "next", o, b)
  PROVE  Lies(f, q, p, Len(q), w, StartPos, w, "same", o, b)
<1>1. Len(q) \in Nat /\ Len(q) \in 0 .. Len(q)
  OBVIOUS
<1>2. Tile(q, p, 0 + 1, Len(q), StartPos, w)
  BY DEF Lies
<1>3. Tile(q, p, 1, Len(q), StartPos, w)
  BY <1>2
<1> QED BY <1>1, <1>3 DEF Lies

\* The oldest message is at r, whole unless its memory was cleared.
OldestAt(f, q, p, e, r, o) ==
    /\ q # <<>> /\ q[1] \in Messages /\ Head(q) = q[1] /\ p[1] = r
    /\ r + Total(q[1]) <= e /\ e <= RaceEnd /\ r + Total(q[1]) <= RaceEnd
    /\ r \in RaceCells
    /\ o = 1 => Copied(f, r, q[1])

\* What the reader finds in a lap that has a message: the oldest, at readPos.
LEMMA OldestLies ==
  ASSUME NEW f, NEW q \in Seq(Messages), NEW p, NEW k, NEW e, NEW r \in StartPos .. RaceEnd,
         NEW w \in StartPos .. RaceEnd, NEW lap \in {"same", "next"}, NEW o, NEW b,
         Lies(f, q, p, k, e, r, w, lap, o, b), lap = "next" => w <= r, k > 0
  PROVE  OldestAt(f, q, p, e, r, o)
<1>1. Placed(q, p, k, e, r, w, lap)
  BY Zenon, LiesFacts
<1>2. /\ p \in Seq(Nat) /\ Len(p) = Len(q) /\ Len(q) \in Nat /\ k \in 0 .. Len(q)
      /\ e \in StartPos .. RaceEnd /\ e \in Nat /\ r \in Nat
  BY <1>1 DEF Placed
<1>3. StartPos \in Nat /\ RaceEnd \in Nat /\ HeadSize \in Nat
  BY PosAssumption, RaceAssumption
<1>4. 1 \in 1 .. Len(q) /\ 1 <= k /\ k \in 1 .. Len(q)
  BY <1>2
<1>5. q # <<>> /\ q[1] \in Messages /\ Head(q) = q[1]
  BY <1>4
<1>6. Tile(q, p, 1, k, r, e)
  BY DEF Lies
<1>7. p[1] = r /\ r + Total(q[1]) <= e
  BY <1>2, <1>4, <1>6, TileDrop
<1>8. Total(q[1]) \in Nat /\ Total(q[1]) > 0
  BY <1>3, <1>5, TotalType
<1>9. r + Total(q[1]) <= RaceEnd /\ e <= RaceEnd /\ r \in RaceCells
  BY <1>2, <1>3, <1>7, <1>8 DEF RaceCells
<1>10. o = 1 => Copied(f, r, q[1])
  BY <1>4, <1>7 DEF Lies
<1> QED BY <1>5, <1>7, <1>9, <1>10 DEF OldestAt

\* In a lap that has none, while the writer is in the next, there is no head at readPos.
LEMMA NoneLies ==
  ASSUME NEW f, NEW q \in Seq(Messages), NEW p, NEW e, NEW r \in StartPos .. RaceEnd,
         NEW w \in StartPos .. RaceEnd, NEW o \in {1, 2}, NEW b,
         Lies(f, q, p, 0, e, r, w, "next", o, b), w <= r, b # r, r \in RaceCells
  PROVE  f[r] \notin Messages
<1>1. Placed(q, p, 0, e, r, w, "next")
  BY Zenon, LiesFacts
<1>2. HeadSize \in Nat /\ r \in Nat /\ w \in Nat /\ Len(q) \in Nat
  BY <1>1, PosAssumption DEF Placed
<1>3. ASSUME NEW i \in o .. Len(q)
      PROVE  r # p[i]
  <2>1. i \in 1 .. Len(q) /\ i > 0
    BY <1>2
  <2>2. /\ p[i] \in Nat /\ Total(q[i]) \in Nat /\ HeadSize < Total(q[i])
        /\ p[i] + Total(q[i]) <= w
    BY <1>1, <2>1 DEF Placed
  <2> QED BY <1>2, <2>2
<1> QED BY <1>3 DEF Lies

\* From f to g the n cells from r on were cleared, and no other changed.
OnlyCleared(f, g, r, n) ==
    /\ \A x \in RaceCells : x >= r /\ x < r + n => g[x] = Zero
    /\ \A x \in RaceCells : x < r \/ x >= r + n => g[x] = f[x]

\* RClear: the memory of the oldest message is cleared, and no other cell that counts.
LEMMA ClearLies ==
  ASSUME NEW f, NEW g, NEW q \in Seq(Messages), NEW p, NEW k, NEW e,
         NEW r \in StartPos .. RaceEnd, NEW w \in StartPos .. RaceEnd,
         NEW lap \in {"same", "next"}, NEW b,
         Lies(f, q, p, k, e, r, w, lap, 1, b), lap = "next" => w <= r, k > 0,
         OnlyCleared(f, g, r, Total(q[1]))
  PROVE  Lies(g, q, p, k, e, r, w, lap, 2, b)
<1>1. Placed(q, p, k, e, r, w, lap)
  BY Zenon, LiesFacts
<1>2. /\ p \in Seq(Nat) /\ Len(p) = Len(q) /\ Len(q) \in Nat /\ k \in 0 .. Len(q)
      /\ e \in Nat /\ r \in Nat /\ w \in Nat
  BY <1>1 DEF Placed
<1>3. StartPos \in Nat /\ RaceEnd \in Nat /\ HeadSize \in Nat
  BY PosAssumption, RaceAssumption
<1>4. p[1] = r /\ q[1] \in Messages /\ r \in RaceCells
  <2>1. OldestAt(f, q, p, e, r, 1)
    BY Zenon, OldestLies
  <2> QED BY <2>1 DEF OldestAt
<1>5. Total(q[1]) \in Nat /\ Total(q[1]) > 0
  BY <1>3, <1>4, TotalType
<1>6. ASSUME NEW i \in 2 .. Len(q)
      PROVE  /\ i \in 1 .. Len(q)
             /\ p[i] + Total(q[i]) <= r \/ r + Total(q[1]) <= p[i]
  <2>1. i \in 1 .. Len(q) /\ 1 < i
    BY <1>2
  <2>2. p[i] \in Nat /\ Total(q[i]) \in Nat
    BY <1>1, <2>1 DEF Placed
  <2>3. CASE i <= k
    <3>1. Tile(q, p, 1, k, r, e)
      BY DEF Lies
    <3>2. 1 \in 1 .. k /\ i \in 1 .. k
      BY <1>2, <2>1, <2>3
    <3>3. p[1] + Total(q[1]) <= p[i]
      BY <2>1, <3>1, <3>2 DEF Tile
    <3> QED BY <1>4, <2>1, <3>3
  <2>4. CASE i > k
    <3>1. lap = "next" /\ p[i] + Total(q[i]) <= w
      BY <1>1, <2>1, <2>4 DEF Placed
    <3>2. w <= r
      BY <3>1
    <3> QED BY <1>2, <2>1, <2>2, <3>1, <3>2
  <2> QED BY <1>2, <2>1, <2>3, <2>4
<1>7. ASSUME NEW i \in 2 .. Len(q)
      PROVE  Copied(g, p[i], q[i])
  <2> DEFINE a == p[i]
             c == Total(q[i])
  <2>1. i \in 1 .. Len(q)
    BY <1>6
  <2>2. a \in Nat /\ c \in Nat /\ c > 0 /\ StartPos <= a /\ a + c <= RaceEnd
    BY <1>1, <1>3, <2>1 DEF Placed
  <2>3. a + c <= r \/ r + Total(q[1]) <= a
    BY <1>6
  <2> HIDE DEF a, c
  <2>4. \A x \in a .. a + c - 1 : x \in RaceCells /\ (x < r \/ x >= r + Total(q[1]))
    BY <1>2, <1>3, <1>5, <2>2, <2>3 DEF RaceCells
  <2>5. /\ a \in a .. a + c - 1
        /\ \A x \in a + 1 .. a + c - 1 : x \in a .. a + c - 1
    BY <2>2
  <2>6. \A x \in a .. a + c - 1 : g[x] = f[x]
    BY <2>4 DEF OnlyCleared
  <2>7. Copied(f, p[i], q[i])
    BY <2>1 DEF Lies
  <2>8. f[a] = q[i] /\ \A x \in a + 1 .. a + c - 1 : f[x] = Body
    BY <2>7 DEF Copied, a, c
  <2>9. g[a] = q[i] /\ \A x \in a + 1 .. a + c - 1 : g[x] = Body
    BY <2>5, <2>6, <2>8
  <2> QED BY <2>9 DEF Copied, a, c
<1>8. ASSUME NEW x \in RaceCells, g[x] \in Messages, x # b
      PROVE  \E i \in 2 .. Len(q) : x = p[i]
  <2>1. g[x] # Zero
    BY <1>8, CellAssumption
  <2>2. x < r \/ x >= r + Total(q[1])
    BY <1>2, <1>3, <1>5, <2>1 DEF RaceCells, OnlyCleared
  <2>3. f[x] \in Messages
    BY <1>8, <2>2 DEF OnlyCleared
  <2>4. PICK i \in 1 .. Len(q) : x = p[i]
    BY <1>8, <2>3 DEF Lies
  <2>5. x # r
    BY <1>2, <1>3, <1>5, <2>2 DEF RaceCells
  <2>6. i # 1
    BY <1>4, <2>4, <2>5
  <2>7. i \in 2 .. Len(q)
    BY <1>2, <2>4, <2>6
  <2> QED BY <2>4, <2>7
<1> QED BY <1>7, <1>8 DEF Lies

\* RAdvance: the oldest message is gone.
LEMMA TailLies ==
  ASSUME NEW f, NEW q \in Seq(Messages), NEW p, NEW k, NEW e,
         NEW r \in StartPos .. RaceEnd, NEW w \in StartPos .. RaceEnd,
         NEW lap \in {"same", "next"}, NEW b,
         Lies(f, q, p, k, e, r, w, lap, 2, b), lap = "next" => w <= r, k > 0
  PROVE  Lies(f, Tail(q), Tail(p), k - 1, e, r + Total(q[1]), w, lap, 1, b)
<1> DEFINE n == Len(q)
           q1 == Tail(q)
           p1 == Tail(p)
<1>1. Placed(q, p, k, e, r, w, lap)
  BY Zenon, LiesFacts
<1>2. /\ p \in Seq(Nat) /\ Len(p) = n /\ n \in Nat /\ k \in 0 .. n
      /\ e \in StartPos .. RaceEnd /\ e \in Nat /\ r \in Nat /\ w \in Nat
  BY <1>1 DEF Placed
<1>3. k \in 1 .. n /\ n > 0 /\ k \in Nat
  BY <1>2
<1>4. q # <<>> /\ p # <<>>
  BY <1>2, <1>3
<1>5. p1 \in Seq(Nat) /\ Len(p1) = n - 1 /\ Len(q1) = n - 1
  BY <1>2, <1>4
<1>6. \A x \in 1 .. n - 1 : q1[x] = q[x + 1] /\ p1[x] = p[x + 1]
  BY <1>2, <1>4
<1>7. Tile(q, p, 1, k, r, e)
  BY DEF Lies
<1>8. Tile(q, p, 2, k, r + Total(q[1]), e)
  BY <1>2, <1>3, <1>7, TileDrop
<1>9. Tile(q1, p1, 2 - 1, k - 1, r + Total(q[1]), e)
  BY <1>2, <1>3, <1>4, <1>8, TileTail
<1>10. lap = "next" => Tile(q1, p1, (k + 1) - 1, n - 1, StartPos, w)
  <2> SUFFICES ASSUME lap = "next"
               PROVE  Tile(q1, p1, (k + 1) - 1, n - 1, StartPos, w)
    OBVIOUS
  <2>1. Tile(q, p, k + 1, n, StartPos, w)
    BY DEF Lies
  <2>2. k + 1 \in Nat /\ 2 <= k + 1 /\ n <= Len(q)
    BY <1>2, <1>3
  <2> QED BY <1>2, <1>4, <2>1, <2>2, TileTail
<1>11. 2 - 1 = 1 /\ (k + 1) - 1 = (k - 1) + 1 /\ k - 1 \in 0 .. n - 1
  BY <1>2, <1>3
<1> HIDE DEF n, q1, p1
<1>12. \A i \in 2 .. n : Copied(f, p[i], q[i])
  BY DEF Lies, n
<1>13. \A i \in 1 .. n - 1 : Copied(f, p1[i], q1[i])
  <2> SUFFICES ASSUME NEW i \in 1 .. n - 1
               PROVE  Copied(f, p1[i], q1[i])
    OBVIOUS
  <2>1. i + 1 \in 2 .. n
    BY <1>2
  <2> QED BY <1>6, <1>12, <2>1
<1>14. \A x \in RaceCells : f[x] \in Messages => x = b \/ \E i \in 1 .. n - 1 : x = p1[i]
  <2> SUFFICES ASSUME NEW x \in RaceCells, f[x] \in Messages, x # b
               PROVE  \E i \in 1 .. n - 1 : x = p1[i]
    OBVIOUS
  <2>1. PICK i \in 2 .. n : x = p[i]
    BY DEF Lies, n
  <2>2. i - 1 \in 1 .. n - 1 /\ (i - 1) + 1 = i
    BY <1>2, <2>1
  <2>3. p1[i - 1] = p[(i - 1) + 1]
    BY <1>6, <2>2
  <2> QED BY <2>1, <2>2, <2>3
<1>15. lap = "same" => k - 1 = n - 1 /\ e = w
  BY DEF Lies, n
<1>16. Lies(f, q1, p1, k - 1, e, r + Total(q[1]), w, lap, 1, b)
  BY <1>2, <1>5, <1>9, <1>10, <1>11, <1>13, <1>14, <1>15 DEF Lies
<1> QED BY <1>16 DEF q1, p1

\* The operators of ShmRace and of the ring it instantiates.
LEMMA RaceOperators ==
  /\ \A m : Race!Total(m) = Total(m)
  /\ \A m : Race!Ring!Total(m) = Total(m)
  /\ Race!Ring!Cells = RaceCells
<1>1. \A m : Race!Ring!Total(m) = Total(m)
  BY DEF Race!Ring!Total, Total
<1>2. \A m : Race!Total(m) = Total(m)
  BY <1>1 DEF Race!Total
<1>3. Race!Ring!Cells = RaceCells
  BY DEF Race!Ring!Cells, RaceCells
<1> QED BY <1>1, <1>2, <1>3

\* The values of the abbreviations.
LEMMA LapType ==
  /\ Lap \in {"same", "next"} /\ Oldest \in {1, 2}
  /\ Busy = ctrl2.writePos \/ Busy = -1
  /\ wpc \notin {"content", "advance"} => Busy = -1
  /\ wpc \in {"content", "advance"} => Busy = ctrl2.writePos
BY DEF Lap, Oldest, Busy

\* The control block and its bounds.
LEMMA RaceTypeFacts ==
  ASSUME RaceTypes
  PROVE  /\ StartPos \in Nat /\ RaceEnd \in Nat /\ HeadSize \in Nat /\ HeadSize > 0
         /\ ctrl2.readPos \in Nat /\ ctrl2.writePos \in Nat
         /\ Total(msg) \in Nat /\ HeadSize < Total(msg)
         /\ StartPos \in StartPos .. RaceEnd
BY PosAssumption, RaceAssumption, TotalType DEF RaceTypes

\* A step of the writer that only moves it, or loads iDir.
LEMMA WriterMoves ==
  ASSUME Regular, UNCHANGED <<ctrl2, mem2, queue2, together, rpc, rLen, rDir>>,
         Wraps(wpc') <=> Wraps(wpc), Busy' = Busy, WriterKnows'
  PROVE  Regular'
<1>1. Lap' = Lap /\ Oldest' = Oldest
  BY DEF Lap, Oldest
<1>2. PICK k, e, p : Laid(k, e, p)
  BY DEF Regular
<1>3. ReaderKnows(k)'
  BY <1>1, <1>2 DEF Laid, ReaderKnows, Wraps
<1>4. Laid(k, e, p)'
  BY <1>1, <1>2, <1>3 DEF Laid
<1>5. \E kk, ee, pp : Laid(kk, ee, pp)'
  BY <1>4, Zenon
<1> QED BY <1>1, <1>5 DEF Regular

\* The same of the reader.
LEMMA ReaderMoves ==
  ASSUME Regular, UNCHANGED <<ctrl2, mem2, queue2, together, wpc, msg, wDir>>,
         Wraps(rpc') <=> Wraps(rpc), Oldest' = Oldest,
         \A k, e, p : Laid(k, e, p) => ReaderKnows(k)'
  PROVE  Regular'
<1>1. Lap' = Lap /\ Busy' = Busy
  BY DEF Lap, Busy
<1>2. PICK k, e, p : Laid(k, e, p)
  BY DEF Regular
<1>3. ReaderKnows(k)'
  BY <1>2
<1>4. Laid(k, e, p)'
  BY <1>1, <1>2, <1>3 DEF Laid
<1>5. \E kk, ee, pp : Laid(kk, ee, pp)'
  BY <1>4, Zenon
<1>6. WriterKnows'
  BY <1>1 DEF Regular, WriterKnows, Wraps, Copied
<1> QED BY <1>1, <1>5, <1>6 DEF Regular

\* Both processes exit, and nothing more is delivered, after both were wrapping.
LEMMA DoomedStep ==
  ASSUME RaceTypes, Doomed, Race!Next
  PROVE  RaceTypes' /\ Doomed' /\ got' = got
<1>1. ctrl2.writePos = ctrl2.readPos /\ ctrl2.writePos \in Nat
  BY RaceTypeFacts DEF Doomed
<1>2. CASE Race!WLoad
  BY <1>2 DEF Race!WLoad, Race!WriterStep, Race!readerVars, RaceTypes, Doomed
<1>3. CASE Race!WStore
  <2>1. wDir * (-1) \in {-1, 1} /\ ctrl2' = [ctrl2 EXCEPT !.iDir = wDir * (-1)]
    BY <1>3 DEF Race!WStore, RaceTypes
  <2>2. ctrl2' \in Control /\ ctrl2'.iInitFlag = 1 /\ ctrl2'.iDir \in {-1, 1}
    BY <2>1 DEF RaceTypes, Control
  <2>3. ctrl2'.readPos = ctrl2.readPos /\ ctrl2'.writePos = ctrl2.writePos
    BY <2>1 DEF RaceTypes, Control
  <2> QED BY <1>3, <2>2, <2>3 DEF Race!WStore, Race!WriterStep, Race!readerVars, RaceTypes, Doomed
<1>4. CASE Race!WRoom
  <2>1. wpc' = "off"
    BY <1>1, <1>4 DEF Race!WRoom, Race!WriterStep, Race!Refused, Doomed
  <2> QED BY <1>4, <2>1 DEF Race!WRoom, Race!WriterStep, Race!readerVars, RaceTypes, Doomed
<1>5. CASE Race!RLoad
  BY <1>5 DEF Race!RLoad, Race!ReaderStep, Race!writerVars, RaceTypes, Doomed
<1>6. CASE Race!RStore
  <2>1. rDir * (-1) \in {-1, 1} /\ ctrl2' = [ctrl2 EXCEPT !.iDir = rDir * (-1)]
    BY <1>6 DEF Race!RStore, RaceTypes
  <2>2. ctrl2' \in Control /\ ctrl2'.iInitFlag = 1 /\ ctrl2'.iDir \in {-1, 1}
    BY <2>1 DEF RaceTypes, Control
  <2>3. ctrl2'.readPos = ctrl2.readPos /\ ctrl2'.writePos = ctrl2.writePos
    BY <2>1 DEF RaceTypes, Control
  <2> QED BY <1>6, <2>2, <2>3 DEF Race!RStore, Race!ReaderStep, Race!writerVars, RaceTypes, Doomed
<1>7. CASE Race!RMore
  <2>1. rpc' = "off"
    BY <1>1, <1>7 DEF Race!RMore, Race!ReaderStep, Race!Refused, Doomed
  <2> QED BY <1>7, <2>1 DEF Race!RMore, Race!ReaderStep, Race!writerVars, RaceTypes, Doomed
<1>8. CASE Race!Ended
  BY <1>8 DEF Race!Ended, Race!vars, RaceTypes, Doomed
<1>9. ~ Race!RunTogether /\ ~ Race!WBegin /\ ~ Race!WTest /\ ~ Race!WDir /\ ~ Race!WEqual /\ ~ Race!WWrap
  BY DEF Doomed, Race!RunTogether, Race!WBegin, Race!WTest, Race!WDir, Race!WEqual, Race!WWrap, Race!WriterStep
<1>10. ~ Race!WEnough /\ ~ Race!WHead /\ ~ Race!WContent /\ ~ Race!WAdvance
  BY DEF Doomed, Race!WEnough, Race!WHead, Race!WContent, Race!WAdvance, Race!WriterStep
<1>11. ~ Race!RBegin /\ ~ Race!RTest /\ ~ Race!RDir /\ ~ Race!REqual /\ ~ Race!RLap /\ ~ Race!RWrap
  BY DEF Doomed, Race!RBegin, Race!RTest, Race!RDir, Race!REqual, Race!RLap, Race!RWrap, Race!ReaderStep
<1>12. ~ Race!RHead /\ ~ Race!RClear /\ ~ Race!RAdvance
  BY DEF Doomed, Race!RHead, Race!RClear, Race!RAdvance, Race!ReaderStep
<1> QED BY <1>2, <1>3, <1>4, <1>5, <1>6, <1>7, <1>8, <1>9, <1>10, <1>11, <1>12
        DEF Race!Next, Race!Writer, Race!Reader

\* The places of judegeWrite at which the writer only looks.
LEMMA WriterLooks ==
  ASSUME RaceTypes, Regular,
         Race!WBegin \/ Race!WTest \/ Race!WDir \/ Race!WEqual \/ Race!WRoom \/ Race!WEnough
  PROVE  RaceTypes' /\ Regular' /\ got' = got
<1>1. /\ UNCHANGED <<ctrl2, mem2, queue2, together, rpc, rLen, rDir>>
      /\ got' = got /\ wDir' = wDir /\ msg' \in Messages
      /\ wpc \in {"idle", "test", "dir", "equal", "room", "enough"}
      /\ wpc' \in {"idle", "off", "test", "dir", "equal", "wrap", "room", "enough", "head"}
      /\ ~ together => rpc = "idle" \/ wpc' = "idle"
      /\ wpc' = "off" => together
  <2>1. CASE Race!WBegin
    BY <2>1 DEF Race!WBegin, Race!WriterStep, Race!readerVars
  <2>2. CASE Race!WTest
    BY <2>2 DEF Race!WTest, Race!Fit, Race!WriterStep, Race!readerVars, RaceTypes
  <2>3. CASE Race!WDir
    BY <2>3 DEF Race!WDir, Race!WriterStep, Race!readerVars, RaceTypes
  <2>4. CASE Race!WEqual
    BY <2>4 DEF Race!WEqual, Race!Fit, Race!WriterStep, Race!readerVars, RaceTypes
  <2>5. CASE Race!WRoom
    BY <2>5 DEF Race!WRoom, Race!Refused, Race!WriterStep, Race!readerVars, RaceTypes
  <2>6. CASE Race!WEnough
    BY <2>6 DEF Race!WEnough, Race!Refused, Race!WriterStep, Race!readerVars, RaceTypes
  <2> QED BY <2>1, <2>2, <2>3, <2>4, <2>5, <2>6
<1>2. RaceTypes'
  BY <1>1 DEF RaceTypes
<1>3. ~ Wraps(wpc) /\ ~ Wraps(wpc') /\ Busy' = Busy
  BY <1>1 DEF Wraps, Busy
<1>4. Lap' = Lap
  BY <1>1, <1>3 DEF Lap
<1>5. ctrl2.readPos \in Nat /\ ctrl2.writePos \in Nat /\ Lap \in {"same", "next"}
  BY RaceTypeFacts, LapType
<1>6. ctrl2.writePos > ctrl2.readPos => Lap = "same"
  BY <1>5 DEF Regular
<1>7. wpc' \in {"equal", "wrap"} => Lap = "same"
  <2>1. CASE Race!WTest
    BY <1>6, <2>1 DEF Race!WTest, Race!Fit, Race!WriterStep
  <2>2. CASE Race!WDir
    BY <1>3, <2>2 DEF Race!WDir, Race!WriterStep, RaceTypes, Lap
  <2>3. CASE Race!WEqual
    BY <2>3 DEF Race!WEqual, Race!WriterStep, Regular, WriterKnows
  <2>4. CASE Race!WBegin \/ Race!WRoom \/ Race!WEnough
    BY <2>4 DEF Race!WBegin, Race!WRoom, Race!WEnough, Race!Refused, Race!WriterStep
  <2> QED BY <2>1, <2>2, <2>3, <2>4
<1>8. wpc' = "head" => /\ ctrl2.writePos + Total(msg') <= RaceEnd
                       /\ Lap = "next" => ctrl2.writePos + Total(msg') <= ctrl2.readPos
  <2> SUFFICES ASSUME wpc' = "head"
               PROVE  /\ ctrl2.writePos + Total(msg) <= RaceEnd
                      /\ Lap = "next" => ctrl2.writePos + Total(msg) <= ctrl2.readPos
                      /\ msg' = msg
    BY Zenon
  <2>1. CASE Race!WTest \/ Race!WEqual
    <3>1. Race!Ring!FitsAtEnd(ctrl2, Race!Total(msg)) /\ msg' = msg
      BY <2>1 DEF Race!WTest, Race!WEqual, Race!Fit, Race!WriterStep
    <3>2. ctrl2.writePos + Total(msg) <= RaceEnd
      BY <3>1, RaceOperators DEF Race!Ring!FitsAtEnd
    <3>3. Lap = "same"
      <4>1. CASE Race!WTest
        BY <1>6, <4>1 DEF Race!WTest, Race!Fit, Race!WriterStep
      <4>2. CASE Race!WEqual
        BY <4>2 DEF Race!WEqual, Race!WriterStep, Regular, WriterKnows
      <4> QED BY <2>1, <4>1, <4>2
    <3> QED BY <3>1, <3>2, <3>3
  <2>2. CASE Race!WEnough
    <3>1. ctrl2.writePos + Total(msg) <= ctrl2.readPos /\ msg' = msg
      BY <2>2, RaceOperators DEF Race!WEnough, Race!Refused, Race!WriterStep
    <3>2. ctrl2.readPos <= RaceEnd /\ RaceEnd \in Nat /\ Total(msg) \in Nat
      BY RaceTypeFacts DEF RaceTypes
    <3>3. ctrl2.writePos + Total(msg) <= RaceEnd
      BY <1>5, <3>1, <3>2
    <3> QED BY <3>1, <3>3
  <2>3. CASE Race!WBegin \/ Race!WDir \/ Race!WRoom
    BY <2>3 DEF Race!WBegin, Race!WDir, Race!WRoom, Race!Refused, Race!WriterStep
  <2> QED BY <2>1, <2>2, <2>3
<1>9. /\ wpc' # "store" /\ wpc' # "advance"
      /\ wpc' \in {"head", "content", "advance"} => wpc' = "head"
  BY <1>1
<1>10. WriterKnows'
  BY <1>1, <1>3, <1>4, <1>7, <1>8, <1>9 DEF WriterKnows
<1>11. Wraps(wpc') <=> Wraps(wpc)
  BY <1>3
<1>12. Regular'
  BY <1>1, <1>3, <1>10, <1>11, WriterMoves
<1> QED BY <1>1, <1>2, <1>12

\* The writer goes to the next lap, or, when the reader is wrapping too, both are
\* at the start of the segment.
LEMMA WriterWraps ==
  ASSUME RaceTypes, Regular, Race!WWrap
  PROVE  RaceTypes' /\ (Doomed' \/ Regular') /\ got' = got
<1>1. /\ wpc = "wrap" /\ wpc' = "load" /\ got' = got
      /\ UNCHANGED <<mem2, queue2, together, rpc, rLen, rDir, msg, wDir>>
      /\ ctrl2' = [ctrl2 EXCEPT !.writePos = StartPos]
  BY DEF Race!WWrap, Race!WriterStep, Race!readerVars
<1>2. /\ ctrl2' \in Control /\ ctrl2'.iInitFlag = 1 /\ ctrl2'.iDir = ctrl2.iDir
      /\ ctrl2'.readPos = ctrl2.readPos /\ ctrl2'.writePos = StartPos
  BY <1>1, RaceTypeFacts DEF RaceTypes, Control
<1>3. RaceTypes'
  BY <1>1, <1>2, RaceTypeFacts DEF RaceTypes
<1>4. CASE Wraps(rpc)
  <2>1. together
    BY <1>1, <1>4 DEF RaceTypes, Wraps
  <2>2. ctrl2.readPos = StartPos
    BY <1>4 DEF Regular, Laid, ReaderKnows
  <2>3. Doomed'
    BY <1>1, <1>2, <1>4, <2>1, <2>2 DEF Doomed, Wraps
  <2> QED BY <1>1, <1>3, <2>3
<1>5. CASE ~ Wraps(rpc)
  <2>1. ~ Wraps(wpc) /\ Wraps(wpc') /\ ~ Wraps(rpc')
    BY <1>1, <1>5 DEF Wraps
  <2>2. Lap = "same" /\ Lap' = "next"
    BY <1>1, <2>1 DEF Regular, WriterKnows, Lap
  <2>3. ctrl2.iDir = 1
    BY <1>5, <2>1, <2>2 DEF Lap
  <2>4. Oldest' = Oldest /\ Busy = -1 /\ Busy' = -1
    BY <1>1 DEF Oldest, Busy
  <2>5. WriterKnows'
    BY <1>1, <1>2, <2>3 DEF WriterKnows
  <2>6. PICK k, e, p : Laid(k, e, p)
    BY DEF Regular
  <2>7. rpc \notin {"equal", "lap", "wrap"} /\ rpc # "store"
    BY <1>5, <2>2, <2>6 DEF Laid, ReaderKnows, Wraps
  <2>8. ReaderKnows(k)'
    BY <1>1, <2>1, <2>6, <2>7 DEF Laid, ReaderKnows
  <2>9. Lies(mem2, queue2, p, k, e, ctrl2.readPos, ctrl2.writePos, "same", Oldest, -1)
    BY <2>2, <2>4, <2>6 DEF Laid
  <2>10. Lies(mem2, queue2, p, k, e, ctrl2.readPos, StartPos, "next", Oldest, -1)
    BY <2>9, WrapWriterLies DEF RaceTypes
  <2>11. Laid(k, e, p)'
    BY <1>1, <1>2, <2>2, <2>4, <2>8, <2>10 DEF Laid
  <2>12. \E kk, ee, pp : Laid(kk, ee, pp)'
    BY <2>11, Zenon
  <2>13. ctrl2'.writePos <= ctrl2'.readPos
    BY <1>2, RaceTypeFacts DEF RaceTypes
  <2>14. Regular'
    BY <2>1, <2>2, <2>5, <2>12, <2>13 DEF Regular
  <2> QED BY <1>1, <1>3, <2>14
<1> QED BY <1>4, <1>5

\* The writer loads iDir.
LEMMA WriterLoads ==
  ASSUME RaceTypes, Regular, Race!WLoad
  PROVE  RaceTypes' /\ Regular' /\ got' = got
<1>1. /\ wpc = "load" /\ wpc' = "store" /\ got' = got
      /\ UNCHANGED <<ctrl2, mem2, queue2, together, rpc, rLen, rDir>> /\ msg' = msg
      /\ wDir' = ctrl2.iDir
  BY DEF Race!WLoad, Race!WriterStep, Race!readerVars
<1>2. RaceTypes'
  BY <1>1 DEF RaceTypes
<1>3. Wraps(wpc) /\ Wraps(wpc') /\ Busy' = Busy
  BY <1>1 DEF Wraps, Busy
<1>4. WriterKnows'
  BY <1>1, <1>3 DEF Regular, WriterKnows
<1>5. Regular'
  BY <1>1, <1>3, <1>4, WriterMoves
<1> QED BY <1>1, <1>2, <1>5

\* The writer stores the opposite.
LEMMA WriterStores ==
  ASSUME RaceTypes, Regular, Race!WStore
  PROVE  RaceTypes' /\ Regular' /\ got' = got
<1>1. /\ wpc = "store" /\ wpc' = "room" /\ got' = got
      /\ UNCHANGED <<mem2, queue2, together, rpc, rLen, rDir, msg, wDir>>
      /\ ctrl2' = [ctrl2 EXCEPT !.iDir = wDir * (-1)]
  BY DEF Race!WStore, Race!WriterStep, Race!readerVars
<1>2. wDir = 1 /\ wDir * (-1) = -1
  BY <1>1 DEF Regular, WriterKnows
<1>3. /\ ctrl2' \in Control /\ ctrl2'.iInitFlag = 1 /\ ctrl2'.iDir = -1
      /\ ctrl2'.readPos = ctrl2.readPos /\ ctrl2'.writePos = ctrl2.writePos
  BY <1>1, <1>2 DEF RaceTypes, Control
<1>4. RaceTypes'
  BY <1>1, <1>3 DEF RaceTypes
<1>5. Wraps(wpc) /\ ~ Wraps(wpc') /\ ~ Wraps(rpc) /\ ~ Wraps(rpc')
  BY <1>1 DEF Wraps, Regular
<1>6. Lap = "next" /\ Lap' = "next"
  BY <1>3, <1>5 DEF Lap
<1>7. Oldest' = Oldest /\ Busy' = Busy
  BY <1>1 DEF Oldest, Busy
<1>8. WriterKnows'
  BY <1>1, <1>5 DEF WriterKnows
<1>9. PICK k, e, p : Laid(k, e, p)
  BY DEF Regular
<1>10. rpc # "store"
  BY <1>5 DEF Wraps
<1>11. ReaderKnows(k)'
  BY <1>1, <1>5, <1>6, <1>9, <1>10 DEF Laid, ReaderKnows
<1>12. Laid(k, e, p)'
  BY <1>1, <1>3, <1>6, <1>7, <1>9, <1>11 DEF Laid
<1>13. \E kk, ee, pp : Laid(kk, ee, pp)'
  BY <1>12, Zenon
<1>14. Regular'
  BY <1>3, <1>5, <1>6, <1>8, <1>13 DEF Regular
<1> QED BY <1>1, <1>4, <1>14

\* The writer copies the head and the content of its message.
LEMMA WriterCopies ==
  ASSUME RaceTypes, Regular, Race!WHead \/ Race!WContent
  PROVE  RaceTypes' /\ Regular' /\ got' = got
<1> DEFINE w == ctrl2.writePos
           r == ctrl2.readPos
<1>1. /\ got' = got
      /\ UNCHANGED <<ctrl2, queue2, together, rpc, rLen, rDir, msg, wDir>>
      /\ \/ wpc = "head" /\ wpc' = "content" /\ mem2' = [mem2 EXCEPT ![w] = msg]
         \/ wpc = "content" /\ wpc' = "advance" /\ mem2' = Race!Ring!CopyIn(mem2, w, msg)
  <2>1. CASE Race!WHead
    BY <2>1 DEF Race!WHead, Race!WriterStep, Race!readerVars
  <2>2. CASE Race!WContent
    BY <2>2 DEF Race!WContent, Race!WriterStep, Race!readerVars
  <2> QED BY <2>1, <2>2
<1>2. /\ w \in Nat /\ r \in Nat /\ StartPos \in Nat /\ RaceEnd \in Nat
      /\ Total(msg) \in Nat /\ 0 < Total(msg) /\ msg \in Messages
      /\ w \in StartPos .. RaceEnd /\ r \in StartPos .. RaceEnd
      /\ mem2 \in [RaceCells -> Messages \cup {Zero, Body}] /\ queue2 \in Seq(Messages)
  BY RaceTypeFacts DEF RaceTypes
<1>3. /\ w + Total(msg) <= RaceEnd
      /\ Lap = "next" => w + Total(msg) <= r
      /\ Lap = "next" => w <= r
  BY <1>1 DEF Regular, WriterKnows
<1> HIDE DEF w, r
<1>4. w \in RaceCells
  BY <1>2, <1>3 DEF RaceCells
<1>5. /\ mem2' \in [RaceCells -> Messages \cup {Zero, Body}]
      /\ \A x \in RaceCells : x < w \/ x >= w + Total(msg) => mem2'[x] = mem2[x]
      /\ \A x \in RaceCells : w < x /\ mem2'[x] \in Messages => mem2[x] \in Messages
      /\ wpc' = "advance" => Copied(mem2', w, msg)
  <2>1. CASE wpc = "head" /\ wpc' = "content" /\ mem2' = [mem2 EXCEPT ![w] = msg]
    BY <1>2, <1>4, <2>1 DEF RaceCells
  <2>2. CASE wpc = "content" /\ wpc' = "advance" /\ mem2' = Race!Ring!CopyIn(mem2, w, msg)
    <3>1. mem2' = [x \in RaceCells |-> IF x = w THEN msg
                                       ELSE IF x \in w .. w + Total(msg) - 1 THEN Body
                                       ELSE mem2[x]]
      BY <2>2, RaceOperators DEF Race!Ring!CopyIn
    <3>2. \A x \in RaceCells : x < w \/ x >= w + Total(msg) => x \notin w .. w + Total(msg) - 1
      BY <1>2 DEF RaceCells
    <3>3. \A x \in RaceCells : x < w \/ x >= w + Total(msg) => x # w
      BY <1>2 DEF RaceCells
    <3>4. \A x \in w + 1 .. w + Total(msg) - 1 : /\ x \in RaceCells /\ x # w
                                                 /\ x \in w .. w + Total(msg) - 1
      BY <1>2, <1>3 DEF RaceCells
    <3>5. mem2' \in [RaceCells -> Messages \cup {Zero, Body}]
      BY <1>2, <3>1
    <3>6. \A x \in RaceCells : x < w \/ x >= w + Total(msg) => mem2'[x] = mem2[x]
      BY <3>1, <3>2, <3>3
    <3>7. \A x \in RaceCells : w < x /\ mem2'[x] \in Messages => mem2[x] \in Messages
      <4> SUFFICES ASSUME NEW x \in RaceCells, w < x, mem2'[x] \in Messages
                   PROVE  mem2[x] \in Messages
        OBVIOUS
      <4>1. x # w
        BY <1>2 DEF RaceCells
      <4> QED BY <3>1, <4>1, CellAssumption
    <3>8. Copied(mem2', w, msg)
      BY <1>4, <3>1, <3>4 DEF Copied
    <3> QED BY <3>5, <3>6, <3>7, <3>8
  <2> QED BY <1>1, <2>1, <2>2 DEF w
<1>6. RaceTypes'
  BY <1>1, <1>5 DEF RaceTypes
<1>7. ~ Wraps(wpc) /\ ~ Wraps(wpc') /\ (Busy = w \/ Busy = -1) /\ Busy' = w
  BY <1>1 DEF Wraps, Busy, w
<1>8. Lap' = Lap /\ Oldest' = Oldest /\ Lap \in {"same", "next"} /\ Oldest \in {1, 2}
  BY <1>1, <1>7, LapType DEF Lap, Oldest
<1>9. PICK k, e, p : Laid(k, e, p)
  BY DEF Regular
<1>10. Lies(mem2, queue2, p, k, e, r, w, Lap, Oldest, Busy)
  BY <1>9 DEF Laid, w, r
<1>11. Lies(mem2', queue2, p, k, e, r, w, Lap, Oldest, w)
  <2> DEFINE lap == Lap
             o == Oldest
             b == Busy
             g == mem2'
  <2>1. /\ Lies(mem2, queue2, p, k, e, r, w, lap, o, b) /\ o \in {1, 2}
        /\ Ahead(r, w, lap, b, msg)
    BY <1>3, <1>7, <1>8, <1>10 DEF Ahead
  <2>2. OnlyBehind(mem2, g, w, msg)
    BY <1>5 DEF OnlyBehind
  <2> HIDE DEF lap, o, b, g
  <2>3. Lies(g, queue2, p, k, e, r, w, lap, o, w)
    BY <1>2, <1>3, <2>1, <2>2, WriterKeeps, Zenon
  <2> QED BY <2>3 DEF lap, o, g
<1>12. ReaderKnows(k)'
  BY <1>1, <1>8, <1>9 DEF Laid, ReaderKnows, Wraps
<1>13. Laid(k, e, p)'
  BY <1>1, <1>7, <1>8, <1>11, <1>12 DEF Laid, w, r
<1>14. \E kk, ee, pp : Laid(kk, ee, pp)'
  BY <1>13, Zenon
<1>15. WriterKnows'
  BY <1>1, <1>3, <1>5, <1>7, <1>8 DEF WriterKnows, w, r
<1>16. Regular'
  BY <1>1, <1>7, <1>8, <1>14, <1>15 DEF Regular
<1> QED BY <1>1, <1>6, <1>16

\* The writer passes over the message: it is in transit.
LEMMA WriterAdvances ==
  ASSUME RaceTypes, Regular, Race!WAdvance
  PROVE  RaceTypes' /\ Regular' /\ got' = got
<1> DEFINE w == ctrl2.writePos
           r == ctrl2.readPos
<1>1. /\ got' = got /\ wpc = "advance" /\ wpc' = "idle"
      /\ UNCHANGED <<mem2, together, rpc, rLen, rDir, msg, wDir>>
      /\ ctrl2' = [ctrl2 EXCEPT !.writePos = @ + Race!Total(msg)]
      /\ queue2' = Append(queue2, msg)
  BY DEF Race!WAdvance, Race!WriterStep, Race!readerVars
<1>2. /\ w \in Nat /\ r \in Nat /\ StartPos \in Nat /\ RaceEnd \in Nat
      /\ Total(msg) \in Nat /\ 0 < Total(msg) /\ msg \in Messages
      /\ w \in StartPos .. RaceEnd /\ r \in StartPos .. RaceEnd
      /\ queue2 \in Seq(Messages)
  BY RaceTypeFacts DEF RaceTypes
<1>3. /\ w + Total(msg) <= RaceEnd
      /\ Lap = "next" => w + Total(msg) <= r
      /\ Lap = "next" => w <= r
      /\ Lap = "same" => r <= w
      /\ Copied(mem2, w, msg)
  BY <1>1 DEF Regular, WriterKnows
<1>4. ctrl2' = [ctrl2 EXCEPT !.writePos = w + Total(msg)]
  BY <1>1, RaceOperators
<1>5. /\ ctrl2' \in Control /\ ctrl2'.iInitFlag = 1 /\ ctrl2'.iDir = ctrl2.iDir
      /\ ctrl2'.readPos = r /\ ctrl2'.writePos = w + Total(msg)
  BY <1>2, <1>4 DEF RaceTypes, Control
<1> HIDE DEF w, r
<1>6. ctrl2'.writePos \in StartPos .. RaceEnd /\ queue2' \in Seq(Messages)
  BY <1>1, <1>2, <1>3, <1>5
<1>7. RaceTypes'
  BY <1>1, <1>5, <1>6 DEF RaceTypes, r
<1>8. ~ Wraps(wpc) /\ ~ Wraps(wpc') /\ Busy = w /\ Busy' = -1
  BY <1>1 DEF Wraps, Busy, w
<1>9. Lap' = Lap /\ Oldest' = Oldest /\ Lap \in {"same", "next"} /\ Oldest \in {1, 2}
  BY <1>1, <1>5, <1>8, LapType DEF Lap, Oldest
<1>10. PICK k, e, p : Laid(k, e, p)
  BY DEF Regular
<1>11. Lies(mem2, queue2, p, k, e, r, w, Lap, Oldest, w)
  BY <1>8, <1>10 DEF Laid, w, r
<1>12. Oldest = 2 => k > 0
  BY <1>10 DEF Laid, ReaderKnows, Oldest
<1>13. k \in 0 .. Len(queue2) /\ Len(queue2) \in Nat /\ (Lap = "same" => k = Len(queue2))
  BY <1>2, <1>11 DEF Lies
<1>14. k > 0 => queue2'[1] = queue2[1]
  BY <1>1, <1>2, <1>13
<1>15. rpc = "wrap" => Lap = "next" /\ k = 0
  BY <1>10 DEF Laid, ReaderKnows
<1>16. PICK k1, e1, p1 :
          /\ Lies(mem2, queue2', p1, k1, e1, r, w + Total(msg), Lap, Oldest, -1)
          /\ k > 0 => k1 > 0
          /\ rpc = "wrap" => k1 = 0
  <2> DEFINE lap == Lap
             o == Oldest
             kk == IF lap = "same" THEN k + 1 ELSE k
             ee == IF lap = "same" THEN w + Total(msg) ELSE e
             pp == Append(p, w)
  <2>1. /\ Lies(mem2, queue2, p, k, e, r, w, lap, o, w) /\ lap \in {"same", "next"} /\ o \in {1, 2}
        /\ lap = "next" => w <= r
        /\ o = 2 => k > 0
    BY <1>3, <1>9, <1>11, <1>12
  <2>2. /\ k > 0 => kk > 0
        /\ rpc = "wrap" => kk = 0
    BY <1>13, <1>15
  <2> HIDE DEF lap, o
  <2>3. Lies(mem2, Append(queue2, msg), pp, kk, ee, r, w + Total(msg), lap, o, -1)
    BY <1>2, <1>3, <2>1, AppendLies, Zenon
  <2>4. Lies(mem2, queue2', pp, kk, ee, r, w + Total(msg), lap, o, -1)
    BY <1>1, <2>3
  <2> HIDE DEF kk, ee, pp
  <2> QED BY <2>2, <2>4, Zenon DEF lap, o
<1>17. ReaderKnows(k1)'
  <2>1. UNCHANGED <<rpc, rDir, rLen>> /\ ctrl2'.iDir = ctrl2.iDir /\ ctrl2'.readPos = ctrl2.readPos
    BY <1>1, <1>5 DEF r
  <2>2. Lap' = Lap /\ ReaderKnows(k)
    BY <1>9, <1>10 DEF Laid
  <2> QED BY <1>14, <1>16, <2>1, <2>2 DEF ReaderKnows, Wraps
<1>18. Laid(k1, e1, p1)'
  BY <1>1, <1>5, <1>8, <1>9, <1>16, <1>17 DEF Laid
<1>19. \E kk, ee, pp : Laid(kk, ee, pp)'
  BY <1>18, Zenon
<1>20. WriterKnows'
  BY <1>1, <1>8 DEF WriterKnows
<1>21. /\ Lap' = "same" => ctrl2'.readPos <= ctrl2'.writePos
       /\ Lap' = "next" => ctrl2'.writePos <= ctrl2'.readPos
  BY <1>2, <1>3, <1>5, <1>9
<1>22. Regular'
  BY <1>8, <1>19, <1>20, <1>21 DEF Regular
<1> QED BY <1>1, <1>7, <1>22

\* What the reader decides about its lap: there is more in it exactly when a message
\* of it is in transit.
LEMMA LapDecides ==
  ASSUME RaceTypes, Regular, rpc = "lap", NEW k, NEW e, NEW p, Laid(k, e, p)
  PROVE  Race!Ring!MoreInLap(ctrl2, mem2) <=> k > 0
<1> DEFINE w == ctrl2.writePos
           r == ctrl2.readPos
           b == Busy
<1>1. /\ w \in Nat /\ r \in Nat /\ StartPos \in Nat /\ RaceEnd \in Nat
      /\ HeadSize \in Nat /\ HeadSize > 0
      /\ w \in StartPos .. RaceEnd /\ r \in StartPos .. RaceEnd
      /\ queue2 \in Seq(Messages) /\ msg \in Messages
  BY RaceTypeFacts DEF RaceTypes
<1>2. Lap = "next" /\ Oldest = 1
  BY DEF Laid, ReaderKnows, Oldest
<1>3. w <= r
  BY <1>2 DEF Regular
<1>4. Lies(mem2, queue2, p, k, e, r, w, "next", 1, b)
  BY <1>2 DEF Laid
<1>5. k \in 0 .. Len(queue2) /\ Len(queue2) \in Nat
  BY <1>1, <1>4 DEF Lies
<1>6. b # r
  <2>1. CASE wpc \in {"content", "advance"}
    <3>1. w + Total(msg) <= r /\ b = w
      BY <1>2, <2>1 DEF Regular, WriterKnows, Busy
    <3> QED BY <1>1, <3>1, RaceTypeFacts
  <2>2. CASE wpc \notin {"content", "advance"}
    BY <1>1, <2>2 DEF Busy
  <2> QED BY <2>1, <2>2
<1> HIDE DEF w, r, b
<1>7. CASE k > 0
  <2>1. OldestAt(mem2, queue2, p, e, r, 1)
    <3>1. "next" \in {"same", "next"}
      OBVIOUS
    <3> QED BY <1>1, <1>3, <1>4, <1>7, <3>1, OldestLies, Zenon
  <2>2. /\ queue2[1] \in Messages /\ r + Total(queue2[1]) <= RaceEnd
        /\ mem2[r] = queue2[1]
    BY <2>1 DEF OldestAt, Copied
  <2>3. Race!Ring!HeadAt(mem2, r) = Size(queue2[1])
    BY <2>2 DEF Race!Ring!HeadAt
  <2>4. Size(queue2[1]) \in Nat /\ Size(queue2[1]) > 0 /\ Total(queue2[1]) = HeadSize + Size(queue2[1])
    BY <2>2, SizeAssumption DEF Total
  <2>5. r + HeadSize < RaceEnd /\ r + HeadSize + Size(queue2[1]) <= RaceEnd
    BY <1>1, <2>2, <2>4
  <2> QED BY <1>7, <2>3, <2>4, <2>5 DEF Race!Ring!MoreInLap, r
<1>8. CASE ~ (k > 0)
  <2>1. k = 0
    BY <1>5, <1>8
  <2> SUFFICES ASSUME Race!Ring!MoreInLap(ctrl2, mem2)
               PROVE  FALSE
    BY <1>8
  <2>2. r + HeadSize < RaceEnd /\ Race!Ring!HeadAt(mem2, r) > 0
    BY DEF Race!Ring!MoreInLap, r
  <2>3. r \in RaceCells
    BY <1>1, <2>2 DEF RaceCells
  <2>4. Lies(mem2, queue2, p, 0, e, r, w, "next", 1, b)
    BY <1>4, <2>1
  <2>5. mem2[r] \notin Messages
    BY <1>1, <1>3, <1>6, <2>3, <2>4, NoneLies
  <2> QED BY <2>2, <2>5 DEF Race!Ring!HeadAt
<1> QED BY <1>7, <1>8

\* The places of judegeRead at which the reader only looks.
LEMMA ReaderLooks ==
  ASSUME RaceTypes, Regular,
         Race!RBegin \/ Race!RTest \/ Race!RDir \/ Race!REqual \/ Race!RLap \/ Race!RMore
  PROVE  RaceTypes' /\ Regular' /\ got' = got
<1>1. /\ UNCHANGED <<ctrl2, mem2, queue2, together, wpc, msg, wDir>>
      /\ got' = got /\ rDir' = rDir /\ rLen' = rLen
      /\ rpc \in {"idle", "test", "dir", "equal", "lap", "more"}
      /\ rpc' \in {"idle", "off", "test", "dir", "equal", "lap", "wrap", "more", "head"}
      /\ ~ together => wpc = "idle" \/ rpc' = "idle"
      /\ rpc' = "off" => together
  <2>1. CASE Race!RBegin
    BY <2>1 DEF Race!RBegin, Race!ReaderStep, Race!writerVars
  <2>2. CASE Race!RTest
    BY <2>2 DEF Race!RTest, Race!ReaderStep, Race!writerVars, RaceTypes
  <2>3. CASE Race!RDir
    BY <2>3 DEF Race!RDir, Race!ReaderStep, Race!writerVars, RaceTypes
  <2>4. CASE Race!REqual
    BY <2>4 DEF Race!REqual, Race!ReaderStep, Race!writerVars, RaceTypes
  <2>5. CASE Race!RLap
    BY <2>5 DEF Race!RLap, Race!ReaderStep, Race!writerVars, RaceTypes
  <2>6. CASE Race!RMore
    BY <2>6 DEF Race!RMore, Race!Refused, Race!ReaderStep, Race!writerVars, RaceTypes
  <2> QED BY <2>1, <2>2, <2>3, <2>4, <2>5, <2>6
<1>2. RaceTypes'
  BY <1>1 DEF RaceTypes
<1>3. ~ Wraps(rpc) /\ ~ Wraps(rpc') /\ Oldest' = Oldest /\ Oldest = 1
  BY <1>1 DEF Wraps, Oldest
<1>4. Lap' = Lap
  BY <1>1, <1>3 DEF Lap
<1>5. ctrl2.readPos \in Nat /\ ctrl2.writePos \in Nat /\ Lap \in {"same", "next"}
  BY RaceTypeFacts, LapType
<1>6. /\ ctrl2.writePos > ctrl2.readPos => Lap = "same"
      /\ ctrl2.writePos < ctrl2.readPos => Lap = "next"
  BY <1>5 DEF Regular
<1>7. ASSUME NEW k, NEW e, NEW p, Laid(k, e, p)
      PROVE  ReaderKnows(k)'
  <2>1. rpc' \in {"equal", "lap", "wrap"} => Lap = "next"
    <3>1. CASE Race!RTest
      BY <1>6, <3>1 DEF Race!RTest, Race!ReaderStep
    <3>2. CASE Race!RDir
      BY <1>3, <3>2 DEF Race!RDir, Race!ReaderStep, RaceTypes, Lap
    <3>3. CASE Race!REqual \/ Race!RLap
      BY <1>7, <3>3 DEF Race!REqual, Race!RLap, Race!ReaderStep, Laid, ReaderKnows
    <3>4. CASE Race!RBegin \/ Race!RMore
      BY <3>4 DEF Race!RBegin, Race!RMore, Race!Refused, Race!ReaderStep
    <3> QED BY <3>1, <3>2, <3>3, <3>4
  <2>2. k \in Nat
    BY <1>7 DEF Laid, Lies, RaceTypes
  <2>3. rpc' = "wrap" => k = 0
    <3> SUFFICES ASSUME rpc' = "wrap"
                 PROVE  k = 0
      OBVIOUS
    <3>1. rpc = "lap" /\ ~ Race!Ring!MoreInLap(ctrl2, mem2)
      BY DEF Race!RBegin, Race!RTest, Race!RDir, Race!REqual, Race!RLap, Race!RMore, Race!Refused, Race!ReaderStep
    <3>2. ~ (k > 0)
      BY <1>7, <3>1, LapDecides
    <3> QED BY <2>2, <3>2
  <2>4. rpc' = "head" => k > 0
    <3> SUFFICES ASSUME rpc' = "head"
                 PROVE  k > 0
      OBVIOUS
    <3>1. CASE Race!RLap
      <4>1. rpc = "lap" /\ Race!Ring!MoreInLap(ctrl2, mem2)
        BY <3>1 DEF Race!RLap, Race!ReaderStep
      <4> QED BY <1>7, <4>1, LapDecides
    <3>2. CASE Race!RMore
      <4>1. ctrl2.writePos > ctrl2.readPos
        BY <3>2 DEF Race!RMore, Race!Refused, Race!ReaderStep
      <4>2. Lap = "same"
        BY <1>6, <4>1
      <4>3. Lies(mem2, queue2, p, k, e, ctrl2.readPos, ctrl2.writePos, "same", 1, Busy)
        BY <1>3, <1>7, <4>2 DEF Laid
      <4>4. e = ctrl2.writePos /\ Tile(queue2, p, 1, k, ctrl2.readPos, e)
        BY <4>3 DEF Lies
      <4>5. 1 > k => ctrl2.readPos = e
        BY <4>4 DEF Tile
      <4> QED BY <1>5, <2>2, <4>1, <4>4, <4>5
    <3>3. CASE Race!RBegin \/ Race!RTest \/ Race!RDir \/ Race!REqual
      BY <3>3 DEF Race!RBegin, Race!RTest, Race!RDir, Race!REqual, Race!ReaderStep
    <3> QED BY <3>1, <3>2, <3>3
  <2>5. /\ rpc' # "store" /\ rpc' \notin {"clear", "advance"}
        /\ rpc' \in {"head", "clear", "advance"} => rpc' = "head"
    BY <1>1
  <2> QED BY <1>3, <1>4, <2>1, <2>3, <2>4, <2>5 DEF ReaderKnows
<1>8. Wraps(rpc') <=> Wraps(rpc)
  BY <1>3
<1>9. Regular'
  BY <1>1, <1>3, <1>7, <1>8, ReaderMoves
<1> QED BY <1>1, <1>2, <1>9

\* The reader follows the writer, or, when the writer is wrapping too, both are at
\* the start of the segment.
LEMMA ReaderWraps ==
  ASSUME RaceTypes, Regular, Race!RWrap
  PROVE  RaceTypes' /\ (Doomed' \/ Regular') /\ got' = got
<1>1. /\ rpc = "wrap" /\ rpc' = "load" /\ got' = got
      /\ UNCHANGED <<mem2, queue2, together, wpc, msg, wDir, rLen, rDir>>
      /\ ctrl2' = [ctrl2 EXCEPT !.readPos = StartPos]
  BY DEF Race!RWrap, Race!ReaderStep, Race!writerVars
<1>2. /\ ctrl2' \in Control /\ ctrl2'.iInitFlag = 1 /\ ctrl2'.iDir = ctrl2.iDir
      /\ ctrl2'.writePos = ctrl2.writePos /\ ctrl2'.readPos = StartPos
  BY <1>1, RaceTypeFacts DEF RaceTypes, Control
<1>3. RaceTypes'
  BY <1>1, <1>2, RaceTypeFacts DEF RaceTypes
<1>4. CASE Wraps(wpc)
  <2>1. together
    BY <1>1, <1>4 DEF RaceTypes, Wraps
  <2>2. ctrl2.writePos = StartPos
    BY <1>4 DEF Regular, WriterKnows
  <2>3. Doomed'
    BY <1>1, <1>2, <1>4, <2>1, <2>2 DEF Doomed, Wraps
  <2> QED BY <1>1, <1>3, <2>3
<1>5. CASE ~ Wraps(wpc)
  <2>1. ~ Wraps(rpc) /\ Wraps(rpc') /\ ~ Wraps(wpc')
    BY <1>1, <1>5 DEF Wraps
  <2>2. PICK k, e, p : Laid(k, e, p)
    BY DEF Regular
  <2>3. Lap = "next" /\ Lap' = "same" /\ k = 0
    BY <1>1, <2>1, <2>2 DEF Laid, ReaderKnows, Lap
  <2>4. ctrl2.iDir = -1
    BY <1>5, <2>1, <2>3 DEF Lap, RaceTypes
  <2>5. Oldest' = Oldest /\ Busy' = Busy
    BY <1>1, <1>2 DEF Oldest, Busy
  <2>6. WriterKnows'
    BY <1>1, <1>2, <2>1, <2>3, <1>5 DEF Regular, WriterKnows, Wraps
  <2> DEFINE n == Len(queue2)
             w == ctrl2.writePos
  <2>7. Lies(mem2, queue2, p, 0, e, ctrl2.readPos, w, "next", Oldest, Busy)
    BY <2>2, <2>3 DEF Laid
  <2>8. Lies(mem2, queue2, p, n, w, StartPos, w, "same", Oldest, Busy)
    BY <2>7, WrapReaderLies DEF RaceTypes
  <2>9. PICK kk, ee, pp : Lies(mem2, queue2, pp, kk, ee, StartPos, w, "same", Oldest, Busy)
    BY <2>8, Zenon
  <2>10. ReaderKnows(kk)'
    BY <1>1, <1>2, <2>4 DEF ReaderKnows
  <2>11. Laid(kk, ee, pp)'
    BY <1>1, <1>2, <2>3, <2>5, <2>9, <2>10 DEF Laid
  <2>12. \E x, y, z : Laid(x, y, z)'
    BY <2>11, Zenon
  <2>13. ctrl2'.readPos <= ctrl2'.writePos
    BY <1>2, RaceTypeFacts DEF RaceTypes
  <2>14. Regular'
    BY <2>1, <2>3, <2>6, <2>12, <2>13 DEF Regular
  <2> QED BY <1>1, <1>3, <2>14
<1> QED BY <1>4, <1>5

\* The reader loads iDir.
LEMMA ReaderLoads ==
  ASSUME RaceTypes, Regular, Race!RLoad
  PROVE  RaceTypes' /\ Regular' /\ got' = got
<1>1. /\ rpc = "load" /\ rpc' = "store" /\ got' = got
      /\ UNCHANGED <<ctrl2, mem2, queue2, together, wpc, msg, wDir>> /\ rLen' = rLen
      /\ rDir' = ctrl2.iDir
  BY DEF Race!RLoad, Race!ReaderStep, Race!writerVars
<1>2. RaceTypes'
  BY <1>1 DEF RaceTypes
<1>3. Wraps(rpc) /\ Wraps(rpc') /\ Oldest' = Oldest
  BY <1>1 DEF Wraps, Oldest
<1>4. \A k, e, p : Laid(k, e, p) => ReaderKnows(k)'
  BY <1>1, <1>3 DEF Laid, ReaderKnows
<1>5. Regular'
  BY <1>1, <1>3, <1>4, ReaderMoves
<1> QED BY <1>1, <1>2, <1>5

\* The reader stores the opposite.
LEMMA ReaderStores ==
  ASSUME RaceTypes, Regular, Race!RStore
  PROVE  RaceTypes' /\ Regular' /\ got' = got
<1>1. /\ rpc = "store" /\ rpc' = "more" /\ got' = got
      /\ UNCHANGED <<mem2, queue2, together, wpc, msg, wDir, rLen, rDir>>
      /\ ctrl2' = [ctrl2 EXCEPT !.iDir = rDir * (-1)]
  BY DEF Race!RStore, Race!ReaderStep, Race!writerVars
<1>2. PICK k, e, p : Laid(k, e, p)
  BY DEF Regular
<1>3. rDir = -1 /\ rDir * (-1) = 1
  BY <1>1, <1>2 DEF Laid, ReaderKnows
<1>4. /\ ctrl2' \in Control /\ ctrl2'.iInitFlag = 1 /\ ctrl2'.iDir = 1
      /\ ctrl2'.readPos = ctrl2.readPos /\ ctrl2'.writePos = ctrl2.writePos
  BY <1>1, <1>3 DEF RaceTypes, Control
<1>5. RaceTypes'
  BY <1>1, <1>4 DEF RaceTypes
<1>6. Wraps(rpc) /\ ~ Wraps(rpc') /\ ~ Wraps(wpc) /\ ~ Wraps(wpc')
  BY <1>1 DEF Wraps, Regular
<1>7. Lap = "same" /\ Lap' = "same"
  BY <1>4, <1>6 DEF Lap
<1>8. Oldest' = Oldest /\ Busy' = Busy
  BY <1>1, <1>4 DEF Oldest, Busy
<1>9. wpc # "store"
  BY <1>6 DEF Wraps
<1>10. WriterKnows'
  BY <1>1, <1>4, <1>6, <1>7, <1>9 DEF Regular, WriterKnows
<1>11. ReaderKnows(k)'
  BY <1>1, <1>6 DEF ReaderKnows
<1>12. Laid(k, e, p)'
  BY <1>1, <1>2, <1>4, <1>7, <1>8, <1>11 DEF Laid
<1>13. \E kk, ee, pp : Laid(kk, ee, pp)'
  BY <1>12, Zenon
<1>14. Regular'
  BY <1>4, <1>6, <1>7, <1>10, <1>13 DEF Regular
<1> QED BY <1>1, <1>5, <1>14

\* A message that is whole in the memory is found whole there.
LEMMA CopiedIsFound ==
  ASSUME NEW f \in [RaceCells -> Messages \cup {Zero, Body}], NEW r \in RaceCells,
         NEW m \in Messages, Copied(f, r, m)
  PROVE  f = Race!Ring!CopyIn(f, r, m)
<1>1. Race!Ring!CopyIn(f, r, m) = [x \in RaceCells |-> IF x = r THEN m
                                               ELSE IF x \in r .. r + Total(m) - 1 THEN Body
                                               ELSE f[x]]
  BY RaceOperators DEF Race!Ring!CopyIn
<1>2. \A x \in RaceCells : x # r /\ x \in r .. r + Total(m) - 1 => x \in r + 1 .. r + Total(m) - 1
  BY TotalType, PosAssumption, RaceAssumption DEF RaceCells
<1>3. \A x \in RaceCells : f[x] = Race!Ring!CopyIn(f, r, m)[x]
  BY <1>1, <1>2 DEF Copied
<1> QED BY <1>1, <1>3

\* The reader takes the oldest message, whole, from where it lies.
LEMMA ReaderTakes ==
  ASSUME RaceTypes, Regular, Race!RHead
  PROVE  RaceTypes' /\ Regular' /\ Race!Fifo'
<1> DEFINE w == ctrl2.writePos
           r == ctrl2.readPos
           o == Oldest
           lap == Lap
           b == Busy
<1>1. /\ rpc = "head" /\ rpc' = "clear"
      /\ UNCHANGED <<ctrl2, mem2, queue2, together, wpc, msg, wDir>> /\ rDir' = rDir
      /\ rLen' = HeadSize + Race!Ring!HeadAt(mem2, r)
      /\ got' = <<IF \E m \in Messages : mem2[r] = m /\ mem2 = Race!Ring!CopyIn(mem2, r, m)
                  THEN <<mem2[r]>> ELSE <<>>,
                  IF queue2 = <<>> THEN <<>> ELSE <<Head(queue2)>> >>
  BY DEF Race!RHead, Race!ReaderStep, Race!writerVars
<1>2. /\ w \in StartPos .. RaceEnd /\ r \in StartPos .. RaceEnd
      /\ queue2 \in Seq(Messages)
      /\ mem2 \in [RaceCells -> Messages \cup {Zero, Body}]
  BY DEF RaceTypes
<1>3. RaceTypes'
  BY <1>1 DEF RaceTypes
<1>4. ASSUME NEW k, NEW e, NEW p, Laid(k, e, p)
      PROVE  OldestAt(mem2, queue2, p, e, r, 1) /\ k > 0
  <2>1. o = 1 /\ lap \in {"same", "next"} /\ (lap = "next" => w <= r)
    BY <1>1, LapType DEF Oldest, Regular
  <2>2. Lies(mem2, queue2, p, k, e, r, w, lap, o, b) /\ k > 0
    BY <1>1, <1>4 DEF Laid, ReaderKnows
  <2> HIDE DEF w, r, o, lap, b
  <2>3. OldestAt(mem2, queue2, p, e, r, o)
    BY <1>2, <2>1, <2>2, OldestLies, Zenon
  <2> QED BY <2>1, <2>2, <2>3
<1>5. PICK k, e, p : Laid(k, e, p)
  BY DEF Regular
<1>6. /\ queue2 # <<>> /\ queue2[1] \in Messages /\ Head(queue2) = queue2[1]
      /\ r \in RaceCells /\ Copied(mem2, r, queue2[1])
  BY <1>4, <1>5 DEF OldestAt
<1>7. mem2[r] = queue2[1]
  BY <1>6 DEF Copied
<1>8. mem2 = Race!Ring!CopyIn(mem2, r, queue2[1])
  BY <1>2, <1>6, CopiedIsFound
<1>9. \E m \in Messages : mem2[r] = m /\ mem2 = Race!Ring!CopyIn(mem2, r, m)
  BY <1>6, <1>7, <1>8, Zenon
<1>10. got' = << <<mem2[r]>>, <<Head(queue2)>> >>
  BY <1>1, <1>6, <1>9, Zenon
<1>11. got'[1] = <<queue2[1]>> /\ got'[2] = <<queue2[1]>>
  BY <1>6, <1>7, <1>10
<1>12. <<queue2[1]>> # <<>>
  OBVIOUS
<1>13. Race!Fifo'
  BY <1>11, <1>12 DEF Race!Fifo
<1>14. rLen' = Total(queue2[1])
  BY <1>1, <1>6, <1>7 DEF Race!Ring!HeadAt, Total
<1>15. ~ Wraps(rpc) /\ ~ Wraps(rpc') /\ Oldest' = Oldest
  BY <1>1 DEF Wraps, Oldest
<1>16. \A kk, ee, pp : Laid(kk, ee, pp) => ReaderKnows(kk)'
  BY <1>1, <1>4, <1>14, <1>15 DEF ReaderKnows
<1>17. Regular'
  BY <1>1, <1>15, <1>16, ReaderMoves
<1> QED BY <1>3, <1>13, <1>17

\* The reader clears its memory.
LEMMA ReaderClears ==
  ASSUME RaceTypes, Regular, Race!RClear
  PROVE  RaceTypes' /\ Regular' /\ got' = got
<1> DEFINE w == ctrl2.writePos
           r == ctrl2.readPos
           n == Total(queue2[1])
<1>1. /\ rpc = "clear" /\ rpc' = "advance" /\ got' = got
      /\ UNCHANGED <<ctrl2, queue2, together, wpc, msg, wDir, rLen, rDir>>
      /\ mem2' = Race!Ring!Clear(mem2, r, rLen)
  BY DEF Race!RClear, Race!ReaderStep, Race!writerVars
<1>2. /\ w \in StartPos .. RaceEnd /\ r \in StartPos .. RaceEnd
      /\ w \in Nat /\ r \in Nat /\ StartPos \in Nat /\ RaceEnd \in Nat
      /\ queue2 \in Seq(Messages) /\ Total(msg) \in Nat /\ 0 < Total(msg)
      /\ mem2 \in [RaceCells -> Messages \cup {Zero, Body}]
  BY RaceTypeFacts DEF RaceTypes
<1>3. PICK k, e, p : Laid(k, e, p)
  BY DEF Regular
<1>4. /\ k > 0 /\ rLen = n /\ Oldest = 1 /\ Oldest' = 2
  BY <1>1, <1>3 DEF Laid, ReaderKnows, Oldest
<1>5. /\ ~ Wraps(rpc) /\ ~ Wraps(rpc') /\ Lap' = Lap /\ Busy' = Busy
      /\ Lap \in {"same", "next"} /\ (Lap = "next" => w <= r)
  BY <1>1, LapType DEF Wraps, Lap, Busy, Regular
<1>6. Lies(mem2, queue2, p, k, e, r, w, Lap, 1, Busy)
  BY <1>3, <1>4 DEF Laid
<1>7. OldestAt(mem2, queue2, p, e, r, 1)
  <2> DEFINE lap == Lap
             b == Busy
  <2>1. Lies(mem2, queue2, p, k, e, r, w, lap, 1, b) /\ lap \in {"same", "next"} /\ (lap = "next" => w <= r)
    BY <1>5, <1>6
  <2> HIDE DEF lap, b, w, r
  <2> QED BY <1>2, <1>4, <2>1, OldestLies, Zenon
<1>8. queue2[1] \in Messages /\ r + n <= e /\ r + n <= RaceEnd
  BY <1>7 DEF OldestAt
<1>9. n \in Nat /\ n > 0
  BY <1>8, TotalType, PosAssumption
<1> HIDE DEF w, r, n
<1>10. mem2' = [x \in RaceCells |-> IF x \in r .. r + n - 1 THEN Zero ELSE mem2[x]]
  BY <1>1, <1>4, RaceOperators DEF Race!Ring!Clear
<1>11. /\ \A x \in RaceCells : x >= r /\ x < r + n => x \in r .. r + n - 1
       /\ \A x \in RaceCells : x < r \/ x >= r + n => x \notin r .. r + n - 1
  BY <1>2, <1>9 DEF RaceCells
<1>12. /\ mem2' \in [RaceCells -> Messages \cup {Zero, Body}]
       /\ \A x \in RaceCells : x >= r /\ x < r + n => mem2'[x] = Zero
       /\ \A x \in RaceCells : x < r \/ x >= r + n => mem2'[x] = mem2[x]
  BY <1>2, <1>10, <1>11
<1>13. RaceTypes'
  BY <1>1, <1>12 DEF RaceTypes
<1>14. Lies(mem2', queue2, p, k, e, r, w, Lap, 2, Busy)
  <2> DEFINE lap == Lap
             b == Busy
             g == mem2'
  <2>1. Lies(mem2, queue2, p, k, e, r, w, lap, 1, b) /\ lap \in {"same", "next"} /\ (lap = "next" => w <= r)
    BY <1>5, <1>6
  <2>2. OnlyCleared(mem2, g, r, Total(queue2[1]))
    BY <1>12 DEF n, OnlyCleared
  <2> HIDE DEF lap, b, g
  <2>3. Lies(g, queue2, p, k, e, r, w, lap, 2, b)
    BY <1>2, <1>4, <2>1, <2>2, ClearLies, Zenon
  <2> QED BY <2>3 DEF lap, b, g
<1>15. ReaderKnows(k)'
  <2>1. ReaderKnows(k)
    BY <1>3 DEF Laid
  <2> QED BY <1>1, <1>4, <1>5, <2>1 DEF ReaderKnows, n
<1>16. Laid(k, e, p)'
  BY <1>1, <1>4, <1>5, <1>14, <1>15 DEF Laid, w, r
<1>17. \E kk, ee, pp : Laid(kk, ee, pp)'
  BY <1>16, Zenon
<1>18. wpc = "advance" => Copied(mem2', w, msg)
  <2> SUFFICES ASSUME wpc = "advance"
               PROVE  Copied(mem2', w, msg)
    OBVIOUS
  <2>1. /\ Copied(mem2, w, msg)
        /\ w + Total(msg) <= RaceEnd
        /\ Lap = "next" => w + Total(msg) <= r
    BY DEF Regular, WriterKnows, w, r
  <2>2. Lap = "same" => r + n <= w
    BY <1>6, <1>8 DEF Lies
  <2>3. \A x \in w .. w + Total(msg) - 1 : x \in RaceCells /\ (x < r \/ x >= r + n)
    BY <1>2, <1>5, <1>9, <2>1, <2>2 DEF RaceCells
  <2>4. /\ w \in w .. w + Total(msg) - 1
        /\ \A x \in w + 1 .. w + Total(msg) - 1 : x \in w .. w + Total(msg) - 1
    BY <1>2
  <2> QED BY <1>12, <2>1, <2>3, <2>4 DEF Copied
<1>19. WriterKnows'
  BY <1>1, <1>5, <1>18 DEF Regular, WriterKnows, w
<1>20. Regular'
  BY <1>1, <1>5, <1>17, <1>19 DEF Regular
<1> QED BY <1>1, <1>13, <1>20

\* The reader passes over it: it is no longer in transit.
LEMMA ReaderAdvances ==
  ASSUME RaceTypes, Regular, Race!RAdvance
  PROVE  RaceTypes' /\ Regular' /\ got' = got
<1> DEFINE w == ctrl2.writePos
           r == ctrl2.readPos
           n == Total(queue2[1])
<1>1. /\ rpc = "advance" /\ rpc' = "idle" /\ got' = got
      /\ UNCHANGED <<mem2, together, wpc, msg, wDir, rLen, rDir>>
      /\ ctrl2' = [ctrl2 EXCEPT !.readPos = r + rLen]
      /\ queue2' = IF queue2 = <<>> THEN queue2 ELSE Tail(queue2)
  BY DEF Race!RAdvance, Race!ReaderStep, Race!writerVars
<1>2. /\ w \in StartPos .. RaceEnd /\ r \in StartPos .. RaceEnd
      /\ w \in Nat /\ r \in Nat /\ StartPos \in Nat /\ RaceEnd \in Nat
      /\ queue2 \in Seq(Messages) /\ Total(msg) \in Nat /\ 0 < Total(msg)
  BY RaceTypeFacts DEF RaceTypes
<1>3. PICK k, e, p : Laid(k, e, p)
  BY DEF Regular
<1>4. k > 0 /\ rLen = n /\ Oldest = 2 /\ Oldest' = 1
  BY <1>1, <1>3 DEF Laid, ReaderKnows, Oldest
<1>5. Lies(mem2, queue2, p, k, e, r, w, Lap, 2, Busy)
  BY <1>3, <1>4 DEF Laid
<1>6. OldestAt(mem2, queue2, p, e, r, 2) /\ Lies(mem2, Tail(queue2), Tail(p), k - 1, e, r + n, w, Lap, 1, Busy)
  <2> DEFINE lap == Lap
             b == Busy
  <2>1. Lies(mem2, queue2, p, k, e, r, w, lap, 2, b) /\ lap \in {"same", "next"} /\ (lap = "next" => w <= r)
    BY <1>5, LapType DEF Regular
  <2> HIDE DEF lap, b, w, r
  <2>2. OldestAt(mem2, queue2, p, e, r, 2)
    BY <1>2, <1>4, <2>1, OldestLies, Zenon
  <2>3. Lies(mem2, Tail(queue2), Tail(p), k - 1, e, r + Total(queue2[1]), w, lap, 1, b)
    BY <1>2, <1>4, <2>1, TailLies, Zenon
  <2> QED BY <2>2, <2>3 DEF lap, b
<1>7. queue2 # <<>> /\ queue2[1] \in Messages /\ r + n <= e /\ r + n <= RaceEnd
  BY <1>6 DEF OldestAt
<1>8. n \in Nat /\ n > 0
  BY <1>7, TotalType, PosAssumption
<1>9. queue2' = Tail(queue2) /\ Tail(queue2) \in Seq(Messages)
  BY <1>1, <1>2, <1>7
<1>10. /\ ctrl2' \in Control /\ ctrl2'.iInitFlag = 1 /\ ctrl2'.iDir = ctrl2.iDir
       /\ ctrl2'.readPos = r + n /\ ctrl2'.writePos = w
  <2> DEFINE end == r + n
  <2>1. end \in Nat
    BY <1>2, <1>8
  <2>2. ctrl2 \in Control /\ ctrl2.iInitFlag = 1 /\ ctrl2' = [ctrl2 EXCEPT !.readPos = end]
    BY <1>1, <1>4 DEF RaceTypes
  <2> HIDE DEF end
  <2> QED BY <2>1, <2>2, HeadMoved DEF end
<1>11. r + n \in StartPos .. RaceEnd
  BY <1>2, <1>7, <1>8
<1>12. RaceTypes'
  BY <1>1, <1>9, <1>10, <1>11 DEF RaceTypes
<1>13. ~ Wraps(rpc) /\ ~ Wraps(rpc') /\ Lap' = Lap /\ Busy' = Busy
  BY <1>1, <1>10 DEF Wraps, Lap, Busy
<1>14. PICK kk, ee, pp : Lies(mem2, Tail(queue2), pp, kk, ee, r + n, w, Lap, 1, Busy)
  BY <1>6, Zenon
<1>15. ReaderKnows(kk)'
  BY <1>1, <1>13 DEF ReaderKnows
<1>16. Laid(kk, ee, pp)'
  BY <1>1, <1>4, <1>9, <1>10, <1>13, <1>14, <1>15 DEF Laid
<1>17. \E x, y, z : Laid(x, y, z)'
  BY <1>16, Zenon
<1>18. Lap = "same" => r + n <= w
  BY <1>5, <1>7 DEF Lies
<1>19. Lap = "next" => w <= r + n
  BY <1>2, <1>8 DEF Regular
<1>20. wpc \in {"head", "content", "advance"} =>
          /\ w + Total(msg) <= RaceEnd
          /\ Lap = "next" => w + Total(msg) <= r + n
  BY <1>2, <1>8 DEF Regular, WriterKnows
<1> HIDE DEF w, r, n
<1>21. WriterKnows'
  BY <1>1, <1>10, <1>13, <1>20 DEF Regular, WriterKnows, w
<1>22. /\ Lap' = "same" => ctrl2'.readPos <= ctrl2'.writePos
       /\ Lap' = "next" => ctrl2'.writePos <= ctrl2'.readPos
  BY <1>10, <1>13, <1>18, <1>19
<1>23. Regular'
  BY <1>1, <1>13, <1>17, <1>21, <1>22 DEF Regular
<1> QED BY <1>1, <1>12, <1>23

\* The ring is empty and both processes are outside their calls.
LEMMA RaceInit == Race!Init => RaceInv
<1> SUFFICES ASSUME Race!Init
             PROVE  RaceInv
  OBVIOUS
<1>1. /\ ctrl2 = [iInitFlag |-> 1, iDir |-> 1, readPos |-> StartPos, writePos |-> StartPos]
      /\ mem2 = [x \in RaceCells |-> Zero]
      /\ together = FALSE
      /\ wpc = "idle" /\ msg \in Messages /\ wDir = 1
      /\ rpc = "idle" /\ rLen = 0 /\ rDir = 1
      /\ queue2 = <<>> /\ got = <<>>
  BY RaceOperators DEF Race!Init, Race!Cells, Race!Ring!Initialised
<1>2. /\ ctrl2.iInitFlag = 1 /\ ctrl2.iDir = 1
      /\ ctrl2.readPos = StartPos /\ ctrl2.writePos = StartPos
  BY <1>1
<1>3. ctrl2 \in Control
  BY <1>1, PosAssumption DEF Control
<1>4. /\ StartPos \in Nat /\ StartPos \in StartPos .. RaceEnd
      /\ \A x \in RaceCells : mem2[x] \notin Messages
      /\ mem2 \in [RaceCells -> Messages \cup {Zero, Body}]
  BY <1>1, PosAssumption, RaceAssumption, CellAssumption
<1>5. RaceTypes
  BY <1>1, <1>2, <1>3, <1>4 DEF RaceTypes
<1>6. Race!Fifo
  BY <1>1 DEF Race!Fifo
<1>7. Lap = "same" /\ Oldest = 1 /\ Busy = -1 /\ ~ Wraps(wpc) /\ ~ Wraps(rpc)
  BY <1>1, <1>2 DEF Lap, Wraps, Oldest, Busy
<1>8. WriterKnows
  BY <1>1, <1>7 DEF WriterKnows
<1>9. ReaderKnows(0)
  BY <1>1, <1>7 DEF ReaderKnows
<1>10. Tile(queue2, queue2, 1, 0, StartPos, StartPos)
  BY DEF Tile
<1>11. queue2 \in Seq(Nat) /\ Len(queue2) = 0
  BY <1>1
<1>12. Lies(mem2, queue2, queue2, 0, StartPos, StartPos, StartPos, "same", 1, -1)
  BY <1>4, <1>10, <1>11 DEF Lies
<1>13. Laid(0, StartPos, queue2)
  BY <1>2, <1>7, <1>9, <1>12 DEF Laid
<1>14. \E k, e, p : Laid(k, e, p)
  BY <1>13, Zenon
<1>15. Regular
  BY <1>2, <1>4, <1>7, <1>8, <1>14 DEF Regular
<1> QED BY <1>5, <1>6, <1>15 DEF RaceInv

\* Every step of the two processes keeps the invariant.
LEMMA RaceStep == RaceInv /\ [Race!Next]_(Race!vars) => RaceInv'
<1> SUFFICES ASSUME RaceInv, [Race!Next]_(Race!vars)
             PROVE  RaceInv'
  OBVIOUS
<1>1. RaceTypes /\ Race!Fifo
  BY DEF RaceInv
<1>2. got' = got => Race!Fifo'
  BY <1>1 DEF Race!Fifo
<1>3. CASE UNCHANGED Race!vars
  <2>1. /\ UNCHANGED <<ctrl2, mem2, queue2, together, rpc, rLen, rDir>>
        /\ UNCHANGED <<wpc, msg, wDir, got>>
    BY <1>3 DEF Race!vars
  <2>2. RaceTypes' /\ Doomed' = Doomed
    BY <1>1, <2>1 DEF RaceTypes, Doomed
  <2>3. Regular => Regular'
    <3>1. (Wraps(wpc') <=> Wraps(wpc)) /\ Busy' = Busy /\ Lap' = Lap
      BY <2>1 DEF Wraps, Busy, Lap
    <3>2. Regular => WriterKnows'
      BY <2>1, <3>1 DEF Regular, WriterKnows, Wraps, Copied
    <3> QED BY <2>1, <3>1, <3>2, WriterMoves
  <2> QED BY <1>2, <2>1, <2>2, <2>3 DEF RaceInv
<1>4. CASE Race!Next /\ Doomed
  BY <1>1, <1>2, <1>4, DoomedStep DEF RaceInv
<1>5. CASE Race!Next /\ Regular
  <2>1. CASE Race!RunTogether
    <3>1. /\ UNCHANGED <<ctrl2, mem2, queue2, rpc, rLen, rDir, wpc, msg, wDir, got>>
          /\ wpc = "idle" /\ rpc = "idle" /\ together' = TRUE
      BY <2>1 DEF Race!RunTogether, Race!writerVars, Race!readerVars
    <3>2. RaceTypes'
      BY <1>1, <3>1 DEF RaceTypes
    <3>3. Lap' = Lap /\ Busy' = Busy /\ Oldest' = Oldest
      BY <3>1 DEF Lap, Busy, Oldest
    <3>4. PICK k, e, p : Laid(k, e, p)
      BY <1>5 DEF Regular
    <3>5. Laid(k, e, p)'
      BY <3>1, <3>3, <3>4 DEF Laid, ReaderKnows, Wraps
    <3>6. \E kk, ee, pp : Laid(kk, ee, pp)'
      BY <3>5, Zenon
    <3>7. WriterKnows'
      BY <1>5, <3>1, <3>3 DEF Regular, WriterKnows, Wraps, Copied
    <3>8. Regular'
      BY <1>5, <3>1, <3>3, <3>6, <3>7 DEF Regular
    <3> QED BY <1>2, <3>1, <3>2, <3>8 DEF RaceInv
  <2>2. CASE Race!WBegin \/ Race!WTest \/ Race!WDir \/ Race!WEqual \/ Race!WRoom \/ Race!WEnough
    BY <1>1, <1>2, <1>5, <2>2, WriterLooks DEF RaceInv
  <2>3. CASE Race!WWrap
    BY <1>1, <1>2, <1>5, <2>3, WriterWraps DEF RaceInv
  <2>4. CASE Race!WLoad
    BY <1>1, <1>2, <1>5, <2>4, WriterLoads DEF RaceInv
  <2>5. CASE Race!WStore
    BY <1>1, <1>2, <1>5, <2>5, WriterStores DEF RaceInv
  <2>6. CASE Race!WHead \/ Race!WContent
    BY <1>1, <1>2, <1>5, <2>6, WriterCopies DEF RaceInv
  <2>7. CASE Race!WAdvance
    BY <1>1, <1>2, <1>5, <2>7, WriterAdvances DEF RaceInv
  <2>8. CASE Race!RBegin \/ Race!RTest \/ Race!RDir \/ Race!REqual \/ Race!RLap \/ Race!RMore
    BY <1>1, <1>2, <1>5, <2>8, ReaderLooks DEF RaceInv
  <2>9. CASE Race!RWrap
    BY <1>1, <1>2, <1>5, <2>9, ReaderWraps DEF RaceInv
  <2>10. CASE Race!RLoad
    BY <1>1, <1>2, <1>5, <2>10, ReaderLoads DEF RaceInv
  <2>11. CASE Race!RStore
    BY <1>1, <1>2, <1>5, <2>11, ReaderStores DEF RaceInv
  <2>12. CASE Race!RHead
    BY <1>1, <1>5, <2>12, ReaderTakes DEF RaceInv
  <2>13. CASE Race!RClear
    BY <1>1, <1>2, <1>5, <2>13, ReaderClears DEF RaceInv
  <2>14. CASE Race!RAdvance
    BY <1>1, <1>2, <1>5, <2>14, ReaderAdvances DEF RaceInv
  <2>15. CASE Race!Ended
    BY <1>3, <2>15 DEF Race!Ended
  <2> QED BY <1>5, <2>1, <2>2, <2>3, <2>4, <2>5, <2>6, <2>7, <2>8, <2>9, <2>10, <2>11, <2>12,
             <2>13, <2>14, <2>15 DEF Race!Next, Race!Writer, Race!Reader
<1> QED BY <1>3, <1>4, <1>5 DEF RaceInv

\* Outside the calls the control block is right about the ring, unless both processes
\* have exited from a wrap.
LEMMA RaceAtRest == RaceInv => RaceIsSound
<1> SUFFICES ASSUME RaceInv, wpc \in {"idle", "off"} /\ rpc \in {"idle", "off"}
             PROVE  /\ Race!Ring!DirTellsLap
                    /\ ctrl2.writePos = ctrl2.readPos /\ ctrl2.iDir = 1 /\ queue2 # <<>> =>
                          wpc = "off" /\ rpc = "off" /\ ctrl2.writePos = StartPos
  BY DEF RaceInv, RaceIsSound, Race!SoundAtRest
<1>1. RaceTypes
  BY DEF RaceInv
<1>2. /\ ctrl2.readPos \in StartPos .. RaceEnd /\ ctrl2.writePos \in StartPos .. RaceEnd
      /\ ctrl2.iDir \in {-1, 1} /\ ctrl2.iInitFlag = 1
      /\ ctrl2.readPos \in Nat /\ ctrl2.writePos \in Nat
  BY <1>1, RaceTypeFacts DEF RaceTypes
<1>3. CASE Doomed
  BY <1>2, <1>3 DEF Doomed, Race!Ring!DirTellsLap
<1>4. CASE Regular
  <2>1. ~ Wraps(wpc) /\ ~ Wraps(rpc) /\ Lap = IF ctrl2.iDir = 1 THEN "same" ELSE "next"
    BY DEF Wraps, Lap
  <2>2. Race!Ring!DirTellsLap
    BY <1>2, <1>4, <2>1 DEF Regular, Race!Ring!DirTellsLap
  <2>3. ASSUME ctrl2.writePos = ctrl2.readPos, ctrl2.iDir = 1, queue2 # <<>>
        PROVE  FALSE
    <3>1. PICK k, e, p : Laid(k, e, p)
      BY <1>4 DEF Regular
    <3> DEFINE w == ctrl2.writePos
               r == ctrl2.readPos
               o == Oldest
               b == Busy
    <3>2. Lies(mem2, queue2, p, k, e, r, w, "same", o, b)
      BY <2>1, <2>3, <3>1 DEF Laid
    <3>3. queue2 \in Seq(Messages) /\ k = Len(queue2) /\ e = w
      BY <1>1, <3>2 DEF RaceTypes, Lies
    <3>4. k > 0
      BY <2>3, <3>3
    <3>5. OldestAt(mem2, queue2, p, e, r, o)
      <4> HIDE DEF w, r, o, b
      <4>1. r \in StartPos .. RaceEnd /\ w \in StartPos .. RaceEnd
        BY <1>2 DEF w, r
      <4>2. "same" \in {"same", "next"} /\ "same" # "next"
        OBVIOUS
      <4> QED BY <3>2, <3>3, <3>4, <4>1, <4>2, OldestLies, Zenon
    <3>6. queue2[1] \in Messages /\ r + Total(queue2[1]) <= e
      BY <3>5 DEF OldestAt
    <3>7. Total(queue2[1]) \in Nat /\ Total(queue2[1]) > 0
      BY <3>6, TotalType, PosAssumption
    <3> QED BY <1>2, <2>3, <3>3, <3>6, <3>7
  <2> QED BY <2>2, <2>3
<1> QED BY <1>3, <1>4 DEF RaceInv

\* ShmRace: a writer and a reader whose calls overlap without a lock pass messages
\* whole, once and in order, and outside the calls the control block is right about
\* the ring unless both have exited from a wrap.
THEOREM RaceSound == Race!Spec => []RaceIsSound
<1>1. Race!Spec => []RaceInv
  BY RaceInit, RaceStep, PTL DEF Race!Spec
<1> QED BY <1>1, RaceAtRest, PTL
==============================================================================
