----------------------------- MODULE MCWorktrees -----------------------------
EXTENDS Worktrees, TLC

CONSTANTS w1, w2

MCWork == {w1, w2}

=============================================================================
