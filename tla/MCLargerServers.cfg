SPECIFICATION AllSpec
CONSTANTS Conns = {c1, c2, c3} NFds = 2 Room = 2 Clients = {b1, b2} Lines = 2
SYMMETRY Symmetry
INVARIANTS BatchIsSound CallbacksAreSound
PROPERTIES UnharmedByReadClients
