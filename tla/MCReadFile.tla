----------------------------- MODULE MCReadFile -----------------------------
(* Files around the sizes at which the buffer of 64 bytes grows.             *)
EXTENDS ReadFile

Sizes == {0, 1, 63, 64, 65, 127, 128, 129}

MCFiles == {[n \in 1 .. size |-> n] : size \in Sizes}
=============================================================================
