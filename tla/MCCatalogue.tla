---------------------------- MODULE MCCatalogue ----------------------------
\* Every view is over every table.
EXTENDS Catalogue, TLC

MCSources == [v \in Views |-> Tables]
MCSymmetry == Permutations(Views)
=============================================================================
