---- MODULE MCAllocator ----
EXTENDS Allocator
====
