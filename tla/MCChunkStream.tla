--------------------------- MODULE MCChunkStream ---------------------------
(* An instance of ChunkStream for TLC.                                     *)
EXTENDS ChunkStream

MCClient(csid, sid, ts, len, sizes, max) ==
    [csid |-> csid, sid |-> sid, ts |-> ts, len |-> len, size |-> sizes, max |-> max]

\* Two chunk streams whose chunks interleave while the chunk size changes; two
\* message streams that interleave on one chunk stream; one stream that uses
\* every header format, with plain and extended timestamps and deltas, also
\* repeated ones; then clients with too many streams, too many partial messages,
\* and too long messages and chunks.
MCClients ==
    {MCClient({3, 319}, {1}, {2}, {2}, {1, 2}, 3),
     MCClient({3, 319}, {1}, {2}, {3}, {1, 2}, 2),
     MCClient({320}, {1, 2}, {1, 2}, {2}, {2}, 3),
     MCClient({320}, {1}, {0, 2, 4, 6}, {0, 2}, {2}, 3),
     MCClient({3, 63, 64, 318}, {1}, {0}, {1}, {}, 4),
     MCClient({3, 64, 319}, {1}, {0}, {2}, {}, 3),
     MCClient({3}, {1}, {0}, {4}, {2, 3}, 2)}
=============================================================================
