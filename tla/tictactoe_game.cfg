SPECIFICATION BoardSpec
INVARIANT BotNeverLoses
INVARIANT VerdictFitsBoard
PROPERTY KeepsForcedWins
