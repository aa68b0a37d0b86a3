SPECIFICATION Spec
CONSTANTS
    Width = 2
    Height = 2
    Char <- MCChar
    Space <- MCSpace
    Newline <- MCNewline
    Return <- MCReturn
    Backspace <- MCBackspace
    Cursor = Cursor
    divisor = 2
    DataBits = 3
    Typable <- MCTypable
    MaxTyped = 5
INVARIANTS
    TypeOK
    WindowFaithful
    EchoFaithful
PROPERTY EchoShown
CHECK_DEADLOCK FALSE
