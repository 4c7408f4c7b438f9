------------------------------ MODULE MCPaging ------------------------------
(* Paging for TLC: the process slots, the kernel heap pages and None are   *)
(* model values (MCPagingLeak.cfg); the numbers are small stand-ins.           *)
EXTENDS Paging
=============================================================================
