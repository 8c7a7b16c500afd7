------------------------------ MODULE MCCatalog -------------------------------
EXTENDS Catalog

CONSTANTS a, b, c

\* With two buckets the three names collide; with four, two of them.
MCHash == a :> 0 @@ b :> 4 @@ c :> 2
===============================================================================
