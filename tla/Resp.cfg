CONSTANTS
    Char = {"*", "$", "0", "1", "2", "CR", "LF", " "}
    kMaxArgs = 2
    kMaxBulkLength = 1
    kMaxInlineLength = 3
    kMaxHeaderLength = 3
    SizeMax = 19
    kMaxEcho = 2
    Lookahead = 1
SPECIFICATION StreamSpec
INVARIANTS CutsDoNotMatter ParsesWhatWasSent NothingLeftOver RepliesFramed
CHECK_DEADLOCK FALSE
