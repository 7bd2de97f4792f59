---------------------------- MODULE MCByteBuffer ----------------------------
(* ByteBuffer with chunks of up to three bytes for TLC.                    *)
EXTENDS ByteBuffer

CONSTANTS b1, b2

MCChunks == {<<>>, <<b1>>, <<b1, b2>>, <<b2, b1, b2>>}
=============================================================================
