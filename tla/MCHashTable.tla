------------------------------ MODULE MCHashTable ------------------------------
(* Four keys whose numbers collide in every bucket of a table of two        *)
(* buckets and part when it grows to four.                                  *)
EXTENDS HashTable

Numbers == [k \in Keys |-> CASE k = "a" -> 0 [] k = "b" -> 2 [] k = "c" -> 4
                              [] OTHER -> 3]
===============================================================================
