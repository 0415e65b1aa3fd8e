--------------------------- MODULE MCTransmitter ---------------------------
EXTENDS Transmitter
CONSTANTS v, a
MCCodec == [r \in Readers |-> IF r = v THEN "VP8" ELSE "AAC"]
request(format, readers) == [format |-> format, readers |-> readers, port |-> 2]
MCRequest == [i \in Ids |-> IF i = 1 THEN request("rtsp", <<v, a>>)
                              ELSE IF i = 2 THEN request("mpegts", <<a>>) ELSE request("std", <<v>>)]
=============================================================================
