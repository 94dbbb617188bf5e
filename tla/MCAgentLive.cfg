\* Progress of a single worker, as deployed.
CONSTANTS
    Topics <- MCTopics
    Workers = {w1}
    Bots = {1, 2}
    RagBots = {1}
    Verdicts = {"approved", "rejected", "removal", "needs_review"}
    BatchSize = 2
    MaxChunks = 2
    MaxEvents = 1
SPECIFICATION FairSpec
PROPERTY EveryRowSettles
