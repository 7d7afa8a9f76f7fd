SPECIFICATION Spec
CONSTANTS short1 = short1 short2 = short2 medium = medium long = long tooLong = tooLong p1 = p1
          Messages = {short1}
          Size <- AppSize
          Zero = Zero Body = Body
          HeadSize = 8 StartPos = 24 EndPos = 70
          Procs = {p1}
INVARIANT UsageMessage
