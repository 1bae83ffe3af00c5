SPECIFICATION FairSpec
PROPERTIES Converges QueueLives GraphCatchesUp IndexSettles Reconciles
