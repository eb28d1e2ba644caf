\* Seven options with colliding keys and names, fifteen words.
CONSTANTS
  Absent = Absent
  Unnumbered = Unnumbered
  HelpName <- HelpNameC
  SetAdds <- SetAddsC
  SubOptions <- SubOptionsC
  Catalogue <- CatalogueC
  Tokens <- TokensC
  MaxWords = 3
  MaxOpts = 2
  MaxWork = 4
SPECIFICATION Spec
INVARIANTS TypeOK HelpLinesAlive EffectsAsRead WordsAsRead DefaultReadsBack ElementsOneByOne
PROPERTIES SetOnce ParseAdvances
