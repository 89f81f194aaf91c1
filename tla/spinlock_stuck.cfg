\* Two cores, each interrupted once between ldaxr and stxr, leave the lock free for
\* ever.
CONSTANT Cores = {0, 1}
SPECIFICATION FairSpec
PROPERTY FreeLockIsTaken
