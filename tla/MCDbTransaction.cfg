SPECIFICATION Spec
CONSTANTS
    Nobody = nobody
    Threads = {t1, t2}
    Modes = {"rollback", "single"}
    Statements = 2
    MaxTransactions = 2
    MaxErrors = 1
    MaxLosses = 0
INVARIANTS TransactionsAtomic
CHECK_DEADLOCK FALSE
