--------------------------- MODULE MCVideoEncoder ---------------------------
(* A build without HEVC for QSV: Auto on NVIDIA tries both codecs, QSV one.  *)
EXTENDS VideoEncoder, TLC

MCFound == (Codecs \X Makers) \ {<<"HEVC", "QSV">>, <<"H264", "software">>}

Symmetric == Permutations(Sizes)
=============================================================================
