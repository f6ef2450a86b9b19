------------------------- MODULE MCImageProcessing -------------------------
(***************************************************************************)
(* ImageProcessing for TLC: wishes that name nobody, and one that names    *)
(* two providers, of which an admin may have disabled one.                 *)
(***************************************************************************)
EXTENDS ImageProcessing

CONSTANTS mock, bedrock

Wishes == {<< >>, <<bedrock, mock>>}
=============================================================================
