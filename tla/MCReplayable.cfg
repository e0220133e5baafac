SPECIFICATION MCSpec
CONSTANTS
    MaxDepth = 5
    MaxItems = 2
    MaxJson = 8
    MaxHeight = 6
    MaxEvents = 1
    Values <- MCValues
    NoValue = NoValue
    Registrable <- TreeCodecs
    NoCodec = "none"
    Failed <- Failure
    ToArguments <- Arguments
    NothingCaptured <- EmptyArguments
    ToReplay <- Encoded
    Issue <- HasReplayIssue
    FromReplay <- Decode
    ImportedBy <- Imports
    Sizes = {2, 3}
    MaxPayload = 2
    Limits <- MCLimits
    DefaultLimits <- MCDefault
INVARIANTS ReplayableIsReconstructable
