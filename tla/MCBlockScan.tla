----------------------------- MODULE MCBlockScan -----------------------------
(* Three blocks, two tasks at a time, two capitals over two legs; rates that *)
(* keep, halve or double, and one that no amount fits.                       *)
EXTENDS BlockScan
MCCapitals == <<2, 5>>
MCPrices == {<<2, 2>>, <<3, 1>>, <<4, 4>>, <<9, 2>>}
=============================================================================
