--------------------------- MODULE MCHistoryReads ---------------------------
\* A numeric and a structured entity of one device; the request names the structured
\* one twice, by itself and with its device.
EXTENDS HistoryReads

CONSTANTS n, s, d

MCComponents == d :> <<s, n>>
MCRequests   == {<<s, d>>}
\* From the start, and from the middle of an hour, asked backwards.
MCWindows    == {<<0, 3>>, <<3, 1>>}
=============================================================================
