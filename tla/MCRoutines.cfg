SPECIFICATION Spec
CONSTANTS
    MaxUri = 32
    Coins = {1, 2}
    MaxKeypairs = 2
    Rate = 4
    MaxInput = 9
    MaxOutput = 9
    N = 4
    Bound = 3329
    Candidates = {0, 3328, 3329}
    Pairs = 1
    FirstBlocks = 2
    MaxBlocks = 5
    Datagrams <- MCDatagrams
    Texts <- MCTexts
    Messages <- MCMessages
    Xof <- MCXof
    Prf <- MCPrf
    Changes <- MCChanges
    Samples <- MCSamples
INVARIANTS
    InBounds
    ReadsWhatWasWritten
    SecretsAgree
    RejectsImplicitly
    Reduced
    OutputIsTheStream
    PermutesAsDefined
    SamplesInOrder
PROPERTIES
    EveryOptionAdvances
CHECK_DEADLOCK FALSE
