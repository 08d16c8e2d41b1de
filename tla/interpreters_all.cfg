SPECIFICATION BothSpec
CONSTANTS
    MaxLen = 3
    Codes <- MCCodes
    Depth = 2
    Cap = 17
    Deadline = 1
    MaxCost = 1
    MaxImm = 3
    A1 = A1
    A2 = A2
    A3 = A3
    Obj <- MCObj
    Kinds <- MCKinds
    Nil = Nil
    K1 = K1
    K2 = K2
    IntKeys <- MCIntKeys
    ObjKeys = {K1, K2}
    Hash <- MCHash
    Vals = {1}
    Empty = Empty
    MaxInteger = 5
    MaxRuntime = 2
    MaxDelay = 3
    HookCount = 3
    MaxFrames = 4
    Size = 2
    Tag = 0
    MaxMemory = 5
    Word = 8
INVARIANTS TypeOK LeftByJump OverrunBounded HeapSound
PROPERTIES Terminates FinalizersRun TableIsMap ScriptEnds
