---------------------------- MODULE MCPageTable ----------------------------
EXTENDS PageTable

MCPolicies == {"FIFO", "LRU", "LFU", "RAND", "FFIFO"}
=============================================================================
