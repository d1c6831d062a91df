\* The abstract machine, the messages of threads and the waits for predicates.
SPECIFICATION RuntimeSpec
CONSTANTS
    Code <- MCCode
    Arity <- MCArity
    Dynamic <- MCDynamic
    Escapes <- MCEscapes
    Queries <- MCQueries
    Expected <- MCExpected
    MaxX = 8
    MaxCollections = 3
    MaxInterruptions = 3
    MaxThrows = 1
    ThrowInto = {"yielded"}
    t0 = t0
    t1 = t1
    Receivers = {t0, t1}
    Console = t0
    MessageKinds = {a, b}
    Patterns = {{a}}
    NoKind = NoKind
    Timeouts = {"timed", "block"}
    GoalModes = {"peek"}
    MaxMessages = 3
    MaxRefs = 1
    MaxUses <- MCUses
    Preds = {p}
    MaxChanges = 2
    MaxListed = 2
    NoStamp = NoStamp
INVARIANTS HeapSound ChoicesRestorable AnswersRight ReceivesSound WaitSound
PROPERTIES OnceEach Terminates MailboxSpec Served TriesRight ChangeTried
