SPECIFICATION AllSpec
CONSTANTS CONNECT_NUM = 2 MAX_ATTARCH_SIZE = 2 Room = 2 Clients = {c1, c2, c3} NONE = NONE
          Users = {f1, f2} NULL = NULL Wild = Wild
INVARIANTS MySocketIsSound SelectWatchesAll
PROPERTIES QuietLeaversAreHarmless ClientsAreServed
