SPECIFICATION AllSpec
CONSTANTS Progs = {"HeartBeatClient", "AddMinus", "ThreadPool", "Pipe"}
          RetryTimes = 1 iEthernetNumber = 2 FdLimit = 5 NUM_THREADS = 8
          Times = 10 TextLen = 15 BuffLen = 32
          Clients = {c1, c2} NConns = 3 iMaxConnNum = 2 ServerFds = 2
INVARIANTS StandbyIsConsistent ThreadsAreAccounted PipeIsKept
PROPERTIES NoEarlyTakeOver StandbyFollows ProgramsEnd
