----------------------------- MODULE MCSpiFlash -----------------------------
\* Instance of SpiFlash with three sectors of four bytes.
EXTENDS SpiFlash

\* A downloaded block in sector 0 and one in sector 1, ranges that begin on and
\* off a sector boundary and cross one or two, and ranges that leave the chip.
Ranges == {<<0, 1>>, <<4, 1>>, <<6, 3>>, <<4, 5>>, <<4, 8>>, <<5, 7>>, <<5, 2>>, <<11, 2>>, <<12, 1>>}
=============================================================================
