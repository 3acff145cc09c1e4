------------------------------- MODULE Serial -------------------------------
(***************************************************************************)
(* Serial arithmetic of sequence numbers, block numbers and stream         *)
(* timestamps (roc_packet/units.h): unsigned numbers of a fixed width that *)
(* wrap around, compared by the sign of their wrapped difference.  The     *)
(* width is a parameter: m is the number of values, 2^16 or 2^32 in the    *)
(* code.                                                                   *)
(***************************************************************************)
EXTENDS Integers

\* Two's complement of the wrapped difference a - b: seqnum_diff,
\* stream_timestamp_diff, blknum_diff.
SerialDiff(a, b, m) ==
    LET d == (a - b) % m IN IF d < m \div 2 THEN d ELSE d - m

\* seqnum_lt, stream_timestamp_lt, blknum_lt.
SerialLt(a, b, m) == SerialDiff(a, b, m) < 0

\* seqnum_le, stream_timestamp_le, blknum_le.
SerialLe(a, b, m) == SerialDiff(a, b, m) <= 0
=============================================================================
