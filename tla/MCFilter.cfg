CONSTANTS
  Vocabularies <- Tokens
  MaxTokens <- Longest
  CrossResource = TRUE
  Row <- Rows
SPECIFICATION Spec
INVARIANTS AcceptsGrammar SelectsMeant
