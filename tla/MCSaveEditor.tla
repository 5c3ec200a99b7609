----------------------------- MODULE MCSaveEditor -----------------------------
(* A file of one block, one of two blocks that lie apart, a free block before *)
(* each of the latter, and a lost file in one of these.                      *)
EXTENDS SaveEditorProps

CONSTANTS f1, f2, f3, e1

MCImage == << <<0, 1, 1, 1, 0>>, <<0, 0, 0, 0, 0>>, <<0, 1, 2, 1, 0>>,
              <<0, 0, 0, 0, 0>>, <<2, 2, 2, 2, 2>> >>
MCChain == (f1 :> <<1>>) @@ (f2 :> <<3, 5>>) @@ (f3 :> <<4>>)
=============================================================================
