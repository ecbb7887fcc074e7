---------------------------- MODULE MCTileFanout ----------------------------
(***************************************************************************)
(* Instances of TileFanout for TLC.                                        *)
(***************************************************************************)
EXTENDS TileFanout

\* tile_size is a multiple of the chunk's side: chunks of its own for each tile.
OwnChunks == [i \in Tiles |-> i]

\* Two tiles in a chunk.
SharedChunks == [i \in Tiles |-> (i + 1) \div 2]

S(backend, inflight, chunks) ==
    [backend |-> backend, inflight |-> inflight, chunkOf |-> chunks]

\* A window smaller than the number of tiles, through each kind of pool, an open
\* one, and the serial path over shared chunks.
MCSetups == {S("dask", 2, OwnChunks), S("process", 2, OwnChunks), S("thread", 0, OwnChunks),
             S("serial", 2, SharedChunks)}
=============================================================================
