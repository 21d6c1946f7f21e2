----------------------------- MODULE MCBumpHeap -----------------------------
(* A 5-bit usize: a heap at 0, which kmalloc refuses, and an unaligned one
   ending at half the address space; sizes up to the largest usize. *)
EXTENDS BumpHeap

MCPowersOfTwo == {1, 2, 4, 8, 16}
MCArenas == {<<0, 8>>, <<1, 15>>, <<8, 8>>}
MCSizes  == {0, 2, 3, 31}
MCAligns == {3, 4, 16}
=============================================================================
