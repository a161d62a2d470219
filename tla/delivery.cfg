\* One message with three delivery receipts.
SPECIFICATION Spec
CONSTANTS
    Messages = {m1}
    Calls = {c1, c2, c3}
INVARIANTS
    TypeOK
    ReceiptsHonest
    ReadUndoneOnlyByOverlap
    OneChannel
PROPERTY SendsAnswered
