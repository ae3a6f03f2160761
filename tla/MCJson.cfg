SPECIFICATION Spec
CONSTANTS
    TheNone = TheNone
    None <- MCNone
    Int32 <- MCInt32
    ByteStrings <- MCByteStrings
    Text <- MCText
    MaxNesting <- MCMaxNesting
    Messages <- MCMessages
    Documents <- MCDocuments
INVARIANTS JsonTypeOK ReaderInvariant JsonRoundTrip ReadsMeaning
