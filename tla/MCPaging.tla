------------------------------ MODULE MCPaging ------------------------------
(* An instance of Paging for TLC: three virtual pages, of which two share a
   page table and the third only the levels above it. *)
EXTENDS Paging

MCVirts == {<<0, 0, 0, 0>>, <<0, 0, 0, 1>>, <<0, 0, 1, 0>>}

MCFlags == {{"W"}}
=============================================================================
