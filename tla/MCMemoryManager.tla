-------------------------- MODULE MCMemoryManager ---------------------------
\* Small instances of MemoryManager for TLC.
EXTENDS MemoryManager

\* Every request that can fit a block of six two-byte words, and one that cannot.
AllRequests == 0 .. 13

\* The address of every word of such a block, and the first one after it.
AllAddresses == {WordSize * w : w \in 0 .. 6}

\* The words of a block of nine one-byte words: a bitmap of two bytes.
LongAddresses == {WordSize * w : w \in 0 .. 9}

\* The instances stay within the widths, as the theorems assume.
ASSUME ConstantsFit == InputsFit
=============================================================================
