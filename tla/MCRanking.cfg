SPECIFICATION Spec
CONSTANTS
    N = 4
    Cosines <- MCCosines
    Terms <- MCTerms
    Mentions <- MCMentions
    TopKs <- MCTopKs
    MmrK = 2
INVARIANT ContextFull
INVARIANT BetterFirst
