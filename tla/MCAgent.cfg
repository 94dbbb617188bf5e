\* Two agent workers whose leases may run out.
CONSTANTS
    Topics <- MCTopics
    Workers = {w1, w2}
    Bots = {1, 2}
    RagBots = {1}
    Verdicts = {"approved", "removal", "needs_review"}
    BatchSize = 2
    MaxChunks = 1
    MaxEvents = 1
SPECIFICATION Spec
INVARIANTS InboxAgrees AnswersAreDue
