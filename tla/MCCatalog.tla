-------------------------------- MODULE MCCatalog ------------------------------
\* One repository and two libraries, one of them with a V1 row that rests on a reviewed
\* false positive.
EXTENDS Catalog

CONSTANTS adopter, lib1, lib2

MCV1Pairs == {<<adopter, lib2>>}
MCUsages == {{}, {lib1}, {lib1, lib2}}
MCDeniable == {<<adopter, lib1>>}

================================================================================
