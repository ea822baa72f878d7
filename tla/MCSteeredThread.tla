-------------------------- MODULE MCSteeredThread --------------------------
\* The instances of SteeredThread that TLC explores.
EXTENDS SteeredThread, TLC

\* Sound where no message carries files and no liveness property is checked.
SymMessages == Permutations(Messages)

=============================================================================
