SPECIFICATION AllSpec
CONSTANTS short = short medium = medium writer = writer reader = reader
          Messages = {short, medium}
          Size <- MCSize
          Zero = Zero Body = Body
          HeadSize = 2 StartPos = 3 EndPos = 11 RaceEnd = 15
          Procs = {writer, reader}
          Types <- MCTypes
          MaxTransit = 6
INVARIANTS InitIsSafe RaceIsSound
