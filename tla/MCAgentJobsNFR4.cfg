SPECIFICATION Spec
CONSTANTS
    sure = sure
    again = again
    unsure = unsure
    look = look
    report = report
    report2 = report2
    table = table
    sheet = sheet
    odd = odd
    garbled = garbled
    session = session
    refund = refund
    price = price
    k1 = k1
    k2 = k2
    k3 = k3
    Jobs = {sure, again, unsure, look, report, report2, table, sheet, odd, garbled}
    ToolJobs = {sure, again, unsure, look}
    ArtifactJobs = {report, report2, table, sheet, odd, garbled}
    Malformed = {garbled}
    Unrenderable = {sheet}
    None = None
    Sessions = {session}
    Tools = {refund, price}
    Keys = {k1, k2, k3}
    Confident = {sure, again}
    SessionOf <- MCSession
    ToolOf <- MCTool
    KeyOf <- MCKey
    KindOf <- MCKind
    TypeOf <- MCType
    MaxAttempts = 2
    MaxVersion = 0
    Batches = {{sure}}
CHECK_DEADLOCK FALSE
INVARIANT ExecutedAtMostOnce
