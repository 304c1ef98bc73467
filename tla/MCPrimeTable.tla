---------------------------- MODULE MCPrimeTable ----------------------------
(* Instances of PrimeTable for TLC: the first twelve primes stand for the  *)
(* 16384 of the code.                                                      *)
EXTENDS PrimeTable, TLC

MCPrimes == <<0, 2, 3, 5, 7, 11, 13, 17, 19, 23, 29, 31, 37, 1000000>>
=============================================================================
