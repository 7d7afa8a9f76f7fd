SPECIFICATION Spec
CONSTANTS short1 = short1 short2 = short2 medium = medium long = long tooLong = tooLong p1 = p1
          Messages = {short1, short2, medium, long, tooLong}
          Size <- MCSize
          Zero = Zero Body = Body
          HeadSize = 2 StartPos = 3 EndPos = 14
          Procs = {p1}
INVARIANTS DirTellsLap CellsAreSound RefusedOnceAtMost
PROPERTY ImplementsQueue
