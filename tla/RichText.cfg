SPECIFICATION ExportTextSpec
CONSTANTS
    Tags <- OneOfEach
    Chars <- AllChars
    MaxHtml = 4
    MaxPlain = 7
    OriginalNames <- Reports
    MaxNames = 5
INVARIANTS
    TypeOK
    WellNested
    StoredIsFixed
    OnlyDroppedTextLost
    PlainRoundTrip
    
    NamesApart
CHECK_DEADLOCK FALSE
