\* The order of the decoded notes.
CONSTANTS
    NoteIds = {i1, i2}
    MaxNotes = 4
SPECIFICATION CodecSpec
INVARIANT RoundTrip
CHECK_DEADLOCK FALSE
