SPECIFICATION Spec
CONSTANTS
    MaxUtterances = 2
    MaxVoiceTurns = 2
    MaxArtifacts = 4
    MaxSwitches = 1
INVARIANT NoOrphans
INVARIANT SettledBecomesTurn
INVARIANT HeardIsKept
INVARIANT TurnedOnce
INVARIANT RepliesApart
