------------------------------ MODULE RangeRead ------------------------------
(* One answer of the streaming engine: the file is measured, the Range header *)
(* parsed against that size, and the body read chunk by chunk later, while    *)
(* the file may be cut, extended or removed.  Sizes and offsets are bytes.    *)
EXTENDS Integers, FiniteSets

CONSTANTS
  MaxSize,   \* bound on the size of the file
  Chunk      \* chunk size

Lengths == 0..(MaxSize + 1)
\* The Range header, as far as the parser looks: of several ranges it takes the
\* first.
Headers ==
  [form : {"absent", "other_unit", "no_dash", "not_number", "dash_alone"}, n : {0}, to : {0}]
  \cup [form : {"suffix", "from"}, n : Lengths, to : {0}]
  \cup [form : {"range"}, n : Lengths, to : Lengths]

VARIABLES
  size,      \* of the file now; -1 when it has been removed
  low,       \* history: the least it has been since it was measured
  answer,    \* [header, status, start, end, stat, open], stat the size measured
  sent       \* bytes of the body sent so far

rangeVars == <<size, low, answer, sent>>

Smaller(a, b) == IF a < b THEN a ELSE b

-----------------------------------------------------------------------------
\* parse_range_header: a status and the first and last byte.
Whole(n) == <<206, 0, n - 1>>
Refused == <<416, 0, -1>>

ParseSuffix(h, n) ==
  IF h.n = 0 THEN Refused ELSE <<206, IF n > h.n THEN n - h.n ELSE 0, n - 1>>

\* A start or an end left out is the first or the last byte.
ParseBounds_NoClamp(h, n) ==      \* mutant: the end is not clamped
  LET start == IF h.form = "dash_alone" THEN 0 ELSE h.n
      end == IF h.form = "range" THEN h.to ELSE n - 1
  IN IF start >= n \/ end < start THEN Refused ELSE <<206, start, end>>
ParseBounds(h, n) ==
  LET start == IF h.form = "dash_alone" THEN 0 ELSE h.n
      end == IF h.form = "range" THEN h.to ELSE n - 1
  IN IF start >= n \/ end < start THEN Refused ELSE <<206, start, Smaller(end, n - 1)>>

ParseRangeHeader(h, n) ==
  IF h.form = "other_unit" THEN Whole(n)
  ELSE IF h.form = "no_dash" THEN Refused
  ELSE IF h.form = "not_number" THEN <<500, 0, -1>>       \* int() raises
  ELSE IF h.form = "suffix" THEN ParseSuffix(h, n)
  ELSE ParseBounds(h, n)

-----------------------------------------------------------------------------
NoAnswer == [header |-> [form |-> "absent", n |-> 0, to |-> 0], status |-> 0,
             start |-> 0, end |-> -1, stat |-> 0, open |-> FALSE]

RangeInit ==
  /\ size = MaxSize /\ low = size
  /\ answer = NoAnswer /\ sent = 0

\* create_streaming_response.
CreateStreamingResponse(header) ==
  /\ answer.status = 0
  /\ LET parsed == IF header.form = "absent" THEN <<200, 0, size - 1>>
                   ELSE ParseRangeHeader(header, size) IN
     answer' = IF size = -1 THEN [NoAnswer EXCEPT !.status = 404]
               ELSE [header |-> header, status |-> parsed[1], start |-> parsed[2], end |-> parsed[3],
                     stat |-> size, open |-> FALSE]
  /\ low' = size
  /\ UNCHANGED <<size, sent>>

Streaming == answer.status \in {200, 206}
Length == answer.end - answer.start + 1

\* chunk_generator opens the file when the body is asked for, after the headers.
OpenFile ==
  /\ Streaming /\ ~answer.open
  /\ answer' = IF size = -1 THEN [answer EXCEPT !.status = 599]     \* raises
               ELSE [answer EXCEPT !.open = TRUE]
  /\ UNCHANGED <<size, low, sent>>

\* A read at or beyond the end of the file returns nothing and ends the body.
ReadChunk_Whole ==      \* mutant: whole chunks are sent, past the range
  /\ Streaming /\ answer.open /\ sent < Length
  /\ LET there == size - (answer.start + sent) IN
     IF there <= 0
     THEN answer' = [answer EXCEPT !.status = 299] /\ UNCHANGED sent
     ELSE sent' = sent + Smaller(Chunk, there) /\ UNCHANGED answer
  /\ UNCHANGED <<size, low>>
ReadChunk ==
  /\ Streaming /\ answer.open /\ sent < Length
  /\ LET there == size - (answer.start + sent) IN
     IF there <= 0
     THEN answer' = [answer EXCEPT !.status = 299] /\ UNCHANGED sent
     ELSE sent' = sent + Smaller(Smaller(Chunk, Length - sent), there) /\ UNCHANGED answer
  /\ UNCHANGED <<size, low>>

\* Nextcloud or an upload rewrites the file in place, or removes it; an open
\* file outlives its name.
RemoveFile ==
  /\ size # -1 /\ ~answer.open
  /\ size' = -1 /\ low' = -1
  /\ UNCHANGED <<answer, sent>>

Resize(n) ==
  /\ size \notin {-1, n}
  /\ size' = n /\ low' = Smaller(low, n)
  /\ UNCHANGED <<answer, sent>>

RangeNext ==
  \/ \E header \in Headers : CreateStreamingResponse(header)
  \/ OpenFile \/ ReadChunk \/ RemoveFile
  \/ \E n \in 0..MaxSize : Resize(n)

RangeSpec == RangeInit /\ [][RangeNext]_rangeVars

-----------------------------------------------------------------------------
\* The bytes a header asks for, by its meaning (RFC 9110, 14.1.2).
Asked(h, n) ==
  {i \in 0..(n - 1) : /\ h.form = "suffix" => i >= n - h.n
                      /\ h.form \in {"from", "range"} => i >= h.n
                      /\ h.form = "range" => i <= h.to}

WellFormed(h) == h.form \notin {"no_dash", "not_number"}

\* A partial answer announces exactly the bytes of the file that were asked for,
\* and 416 is the answer to nothing but a range without a byte in the file.
RangeIsWhatWasAsked ==
  /\ answer.status = 206 => answer.start..answer.end = Asked(answer.header, answer.stat)
  /\ answer.status = 416 /\ WellFormed(answer.header) => Asked(answer.header, answer.stat) = {}

\* The body is never longer than the Content-Length already sent, and is cut
\* short only if the file was, somewhere within the range, after it was measured.
BodyKeepsItsLength ==
  /\ sent <= Length
  /\ answer.status = 299 => low <= answer.end /\ answer.start + sent >= low
=============================================================================
