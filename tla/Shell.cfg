SPECIFICATION Spec
CONSTANTS
    NL = NL
    Blank = Blank
    Hash = Hash
    Quote = Quote
    Fancy = Fancy
    Slash = Slash
    Dot = Dot
    DotDot = DotDot
    Oops = Oops
    Star = Star
    Alphabet <- MCAlphabet
    Commands <- MCCommands
    Home <- MCHome
    Scripts <- MCScripts
    Calls <- MCCalls
    Log <- MCLog
    Notes = {"n", "m"}
    Texts <- MCTexts
    MaxSteps = 3
INVARIANTS AppendsSurvive PatchesApply AgreesWithBash
CHECK_DEADLOCK FALSE
