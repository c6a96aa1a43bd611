------------------------------ MODULE MC_I2cp ------------------------------
EXTENDS I2cp, TLC

\* two data byte values (model values), distinct from the 0 and 0xff a file
\* may hold otherwise
CONSTANTS D1, D2
MC_DataBytes == {D1, D2}
MC_RespLens == {1, 4}
MC_Symmetry == Permutations(MC_DataBytes)
====
