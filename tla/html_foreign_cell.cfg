SPECIFICATION HtmlSpec
CONSTANTS
    UnknownTags = {"foo", "bar"}
    Inputs <- MCInputs
INVARIANT ParseReturns
