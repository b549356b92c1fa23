SPECIFICATION FairSpec
CONSTANTS
    SHELL_BUF_SIZE = 3
    Vim = Vim
    Exit = Exit
    Test = Test
    Word = {Vim, Exit, Test}
    Enter = Enter
    Back = Back
    Esc = Esc
    File = {f1, f2}
    NoFile = NoFile
    Blank = Blank
    NUL = NUL
    MaxTyped = 3
INVARIANTS
    LineFaithful
    CmdFits
    NeverDeaf
    TextStays
    SaveHasFile
    OneReader
PROPERTIES
    EnterServed
