CONSTANTS
    f1 = f1
    f2 = f2
    p = p
    s = s
    alice = alice
    botA = botA
    botB = botB
    chat1 = chat1
    chat2 = chat2
    Requests = {r1, r2}
    Paths = {f1, f2}
    Journal = journal
    Acls <- MCAcls
    Ids = {p, s}
    Empty = empty
    Other = other
    Macros <- MCMacros
    Answers <- MCAnswers
    NoRun = norun
    Telegrams <- MCTelegrams
    Broken = broken
    NoService = noservice
    Bots = {botA, botB}
    NoBot = nobot
    Users = {alice}
    Idle = idle
    Setups <- MCSetups
    Names <- MCNames
    Builtin = "read_log"
    RagQuery = "rag_query"
    NotifySend = "notify_send"
    DbQuery = "db_query"
    Arguments <- MCArguments
    MaxReloads = 1
    MaxEdits = 1
SPECIFICATION Spec
INVARIANTS RegistryExact AnswerExact MacroReadsAllowed SentAsConfigured
SYMMETRY MCSymmetry
