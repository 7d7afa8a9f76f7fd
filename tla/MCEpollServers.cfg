SPECIFICATION AllSpec
CONSTANTS Clients = {b1, b2} NOBODY = NOBODY Backlog = 2 Room = 1 Datagrams = 2
          Conns = {c1, c2} NFds = 2 Size = 3 Hold = 2 MaxCuts = 1
INVARIANTS EdgesAreKept PortsAndPages
PROPERTIES OnlyMadeIsReturned GoneAreNoticed EverybodyIsAnswered
