--------------------------- MODULE MCResumableUpload ---------------------------
EXTENDS ResumableUpload

\* Two contents of one size that share a chunk, a shorter one and an empty one.
MCPayloads == {<<1, 2>>, <<1, 3>>, <<4>>, <<>>}
================================================================================
