SPECIFICATION Spec
CONSTANTS
  w1 = w1
  w2 = w2
  Workers <- MCWorkers
  Messages = {1, 2}
  MaxAttempts = 2
  MaxPosts = 1
PROPERTY SentIsNotSentAgain
