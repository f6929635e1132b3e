------------------------------ MODULE MCCodec ------------------------------
(* Small instances of Codec: chunks of up to three units in a buffer of     *)
(* six, the proportion of 4 MB chunks to the 8 MB buffer; four units do not *)
(* fit in the length field of a chunk.                                      *)
EXTENDS Codec

Data  == { <<>>, <<2>>, <<1, 2>>, <<2, 2, 2>>, <<2, 2, 2, 2>> }
Sizes == { Chunk(<<1>>, 0, d, l) : d \in Data, l \in {0, 1} }
Done  == Control(<<2>>)
Reply == Control(<<1, 2, 2, 2, 2, 2, 2, 2, 2, 2, 2>>)

(* Two chunks of every size and the BatchDone after them; a reply larger    *)
(* than the buffer before or behind a chunk.                                *)
Exchanges ==
  { <<a, b, Done>> : a \in Sizes, b \in Sizes }
    \cup { <<Reply, a, Done>> : a \in Sizes }
    \cup { <<a, Reply, Done>> : a \in Sizes }
=============================================================================
