--------------------------- MODULE MCAtomicQueue ---------------------------
(***************************************************************************)
(* Two producers and two consumers, one of each with blocking operations.   *)
(* Two slots are not shuffled, as no ring of less than 4096 is: what Remap   *)
(* does is compared with the bit operations of remap_index_with_mix below,  *)
(* and proved a permutation in DataStructures_proofs.                       *)
(***************************************************************************)
EXTENDS AtomicQueue, Bitwise

CONSTANTS p1, p2, c1, c2

RemapBits(bits, i) ==
    LET mix == (i ^^ shiftR(i, bits)) & (2^bits - 1)
    IN  (i ^^ mix) ^^ (mix * 2^bits)

ASSUME RemapIsShuffle == \A bits \in 0 .. 3, i \in 0 .. 255 : Remap(2^bits, i) = RemapBits(bits, i)

MCProducers == {p1, p2}
MCConsumers == {c1, c2}
MCBlocking == {p1, c1}
=============================================================================
