---- MODULE MCCredential ----
EXTENDS Credential, TLC
Symmetry == Permutations(Keys) \cup Permutations(Servers)
====
