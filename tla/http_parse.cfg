SPECIFICATION Spec
CONSTANTS
    MaxHeaderSize = 60
    MaxLength = 9999
    Messages <- MCMessages
    Openers <- MCOpeners
INVARIANTS
    
    
    ParserAsserts
    
