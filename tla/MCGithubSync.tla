---------------------------- MODULE MCGithubSync ----------------------------
(* Instances of GithubSync for TLC.                                         *)
EXTENDS GithubSync, TLC

CONSTANTS daily, hand, c1

\* Two repositories; the daily run and one by hand; one reader.
MCRepos == 1 .. 2
MCThreads == {daily, hand}
MCReaders == {c1}
Same == Permutations({daily, hand})

=============================================================================
