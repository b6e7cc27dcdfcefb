SPECIFICATION Spec
CONSTANTS
  Q = 5
  Statements <- MCStatements
  Hints <- MCHints
  Challenges <- MCChallenges
  Alphas = {1, 2}
  Batches <- MCBatches
  Nonces = {1, 3}
  Deltas = {1, 4}
INVARIANTS AcceptsExactly TamperedFails CopiesAgree BatchAcceptsExactly
