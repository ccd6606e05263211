--------------------------- MODULE MCStreamCache ---------------------------
(* Small inputs for StreamCache: same and different numbers of blocks, and *)
(* one input too long to join.                                             *)
EXTENDS StreamCache

InputsDef == {<<<<1>>, <<2, 3>>, <<4>>>>, <<<<5, 6>>, <<7>>, <<8>>>>,
              <<<<1>>, <<2, 3>>>>, <<<<1, 2>>, <<3, 4>>, <<5, 6>>>>}

============================================================================
