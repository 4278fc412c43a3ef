---------------------------- MODULE Access_proofs ----------------------------
(* What the media service owes a client that asks for a file, for any items,   *)
(* secrets, token life and clock, and for a file and chunks of any size.       *)
EXTENDS Tokens, RangeRead, TLAPS

-----------------------------------------------------------------------------
(* Tokens: who is let in is owed it, a live token works, and a refusal is      *)
(* final.                                                                      *)

Users == {"default_user", "eve", "legacy"}

\* What creation writes into a token stays true of it.
TokensInv ==
  /\ tick \in Nat
  /\ \A token \in tokens :
       /\ token.user \in Users
       /\ token.born \in Nat /\ token.born <= tick
       /\ token.expiry = token.born - (token.born % Second) + Second * Ttl

LEMMA InitTokens == TokensInit => TokensInv
BY DEF TokensInit, TokensInv

LEMMA NextTokens == TokensInv /\ [TokensNext]_tokenVars => TokensInv'
<1> SUFFICES ASSUME TokensInv, [TokensNext]_tokenVars PROVE TokensInv'
  OBVIOUS
<1>1. ASSUME NEW item \in Items \cup {"global"}, NEW user \in Users, CreateMediaToken(item, user)
      PROVE  TokensInv'
  BY <1>1 DEF CreateMediaToken, TokensInv
<1>2. ASSUME NEW string \in Strings, RevokeToken(string) PROVE TokensInv'
  BY <1>2 DEF RevokeToken, TokensInv
<1>3. ASSUME NEW key \in Secrets, Restart(key) PROVE TokensInv'
  BY <1>3 DEF Restart, TokensInv
<1>4. CASE ClockTick
  BY <1>4 DEF ClockTick, TokensInv
<1>5. CASE UNCHANGED tokenVars
  BY <1>5 DEF tokenVars, TokensInv
<1> QED BY <1>1, <1>2, <1>3, <1>4, <1>5 DEF TokensNext, Users

\* The invariant holds for ever, whatever Ttl is.
LEMMA TokensAlways == TokensSpec => []TokensInv
BY InitTokens, NextTokens, PTL DEF TokensSpec

-----------------------------------------------------------------------------
\* A string is a token in some spelling.
LEMMA StringToken == ASSUME NEW string \in Strings PROVE string.token \in tokens
BY DEF Strings

LEMMA CreatedString ==
  ASSUME NEW token \in tokens
  PROVE  Created(token) \in Strings /\ Created(token).token = token
BY DEF Strings, Created

\* Truncation at creation costs less than a second and never adds any.
LEMMA ExpiryIsAge ==
  ASSUME TokensInv, NEW token \in tokens
  PROVE  /\ ~Expired(token) => Age(token) <= Second * Ttl
         /\ Age(token) + Second - 1 <= Second * Ttl => ~Expired(token)
<1> DEFINE over == token.born % Second
           life == Second * Ttl
<1>1. /\ tick \in Nat /\ token.born \in Nat /\ Second \in Nat \ {0}
      /\ token.expiry = token.born - over + life
  BY TokensAssumption DEF TokensInv
<1>2. over \in Nat /\ over <= Second - 1
  BY <1>1
<1>3. life \in Nat
  BY TokensAssumption
<1> HIDE DEF over, life
<1>4. /\ ~Expired(token) => Age(token) <= life
      /\ Age(token) + Second - 1 <= life => ~Expired(token)
  BY <1>1, <1>2, <1>3 DEF Expired, Age
<1> QED BY <1>4 DEF life

LEMMA VerifiedIsOwed ==
  ASSUME TokensInv, NEW item, NEW string, Verifies(item, string)
  PROVE  /\ string \in Strings \ revoked
         /\ string.token.item = item /\ string.token.key = secret
         /\ Age(string.token) <= Second * Ttl
BY StringToken, ExpiryIsAge DEF Verifies, Signed

LEMMA AccessFollows == TokensInv => AccessIsOwed
<1> SUFFICES ASSUME TokensInv, NEW item \in Items, NEW query \in Presented,
                    NEW bearer \in Presented \cup {Master},
                    Authenticate(item, query, bearer) # "401"
             PROVE  LET user == Authenticate(item, query, bearer)
                        Owed(string, scope) ==
                          /\ string \in Strings \ revoked
                          /\ string.token.item \in scope /\ string.token.key = secret
                          /\ Age(string.token) <= Second * Ttl
                          /\ user = IF string.token.user = "legacy" THEN "default_user"
                                    ELSE string.token.user
                    IN \/ Owed(query, {item})
                       \/ Owed(bearer, {item, "global"})
                       \/ bearer = Master /\ user = "admin"
  BY DEF AccessIsOwed
<1>1. CASE Verifies(item, query)
  <2>1. Authenticate(item, query, bearer) = UserOf(query.token)
    BY <1>1 DEF Authenticate
  <2> QED BY <1>1, <2>1, VerifiedIsOwed DEF UserOf
<1>2. CASE ~Verifies(item, query) /\ bearer = Master
  BY <1>2 DEF Authenticate
<1>3. CASE ~Verifies(item, query) /\ bearer # Master
  <2>1. Verifies("global", bearer) \/ Verifies(item, bearer)
    BY <1>3 DEF Authenticate
  <2>2. Authenticate(item, query, bearer) = UserOf(bearer.token)
    BY <1>3, <2>1 DEF Authenticate
  <2>3. /\ bearer \in Strings \ revoked /\ bearer.token.item \in {item, "global"}
        /\ bearer.token.key = secret /\ Age(bearer.token) <= Second * Ttl
    BY <2>1, VerifiedIsOwed
  <2> QED BY <2>2, <2>3 DEF UserOf
<1> QED BY <1>1, <1>2, <1>3

LEMMA LiveFollows == TokensInv => LiveTokenWorks
<1> SUFFICES ASSUME TokensInv, NEW token \in tokens, NEW item \in Items,
                    Created(token) \notin revoked, token.key = secret,
                    Age(token) + Second - 1 <= Second * Ttl
             PROVE  /\ token.item = item =>
                         \A bearer \in Presented :
                           Authenticate(item, Created(token), bearer) = UserOf(token)
                    /\ token.item \in {item, "global"} =>
                         \A query \in Presented :
                           Authenticate(item, query, Created(token)) # "401"
  BY DEF LiveTokenWorks
<1> DEFINE string == Created(token)
<1>0. string \in Strings \ revoked /\ string.token = token /\ ~Expired(token)
  BY CreatedString, ExpiryIsAge
<1> HIDE DEF string
<1>1. token.item = item => Verifies(item, string)
  BY <1>0 DEF Verifies, Signed
<1>2. token.item = "global" => Verifies("global", string)
  BY <1>0 DEF Verifies, Signed
<1>3. \A t \in tokens : UserOf(t) \in {"default_user", "eve"}
  BY DEF TokensInv, Users, UserOf
<1>4. ASSUME token.item = item, NEW bearer \in Presented
      PROVE  Authenticate(item, string, bearer) = UserOf(token)
  BY <1>0, <1>1, <1>4 DEF Authenticate
<1>5. ASSUME token.item \in {item, "global"}, NEW query \in Presented
      PROVE  Authenticate(item, query, string) # "401"
  <2>1. CASE Verifies(item, query)
    <3>1. query.token \in tokens
      BY <2>1, StringToken DEF Verifies
    <3> QED BY <1>3, <2>1, <3>1 DEF Authenticate
  <2>2. CASE ~Verifies(item, query)
    <3>1. Authenticate(item, query, string) \in {"admin", UserOf(token)}
      BY <1>0, <1>1, <1>2, <1>5, <2>2 DEF Authenticate
    <3> QED BY <1>3, <3>1
  <2> QED BY <2>1, <2>2
<1> QED BY <1>4, <1>5 DEF string

\* Every request that is let in is owed to a token of its item, of the secret in
\* force and within its life, sent as a string that is not revoked, or to the
\* master secret.
THEOREM AccessSound == TokensSpec => []AccessIsOwed
<1>1. TokensInv => AccessIsOwed
  BY AccessFollows
<1> QED BY <1>1, TokensAlways, PTL

\* A token works for its whole life but for the truncated fraction of its last
\* second, however fine the clock is.
THEOREM LiveTokensWork == TokensSpec => []LiveTokenWorks
<1>1. TokensInv => LiveTokenWorks
  BY LiveFollows
<1> QED BY <1>1, TokensAlways, PTL

-----------------------------------------------------------------------------
LEMMA RefusalStep == TokensInv /\ [TokensNext]_tokenVars => StaysRefused
<1> SUFFICES ASSUME TokensInv, [TokensNext]_tokenVars, epoch' = epoch,
                    NEW string \in Strings, NEW item \in Items \cup {"global"},
                    ~Verifies(item, string)
             PROVE  ~Verifies(item, string)'
  BY DEF StaysRefused
<1>0. secret' = secret /\ revoked \subseteq revoked' /\ tick' \in Nat /\ tick' >= tick
  <2>1. \A key \in Secrets : ~Restart(key)
    BY DEF Restart
  <2> QED BY <2>1 DEF TokensNext, tokenVars, CreateMediaToken, RevokeToken, ClockTick, TokensInv
<1>1. string.token \in tokens
  BY StringToken
<1>2. Expired(string.token) => Expired(string.token)'
  <2>1. string.token.expiry \in Int /\ tick \in Nat
    <3>1. /\ string.token.born \in Nat /\ Second \in Nat \ {0} /\ Ttl \in Nat /\ tick \in Nat
          /\ string.token.expiry
               = string.token.born - (string.token.born % Second) + Second * Ttl
      BY <1>1, TokensAssumption DEF TokensInv
    <3>2. Second * Ttl \in Nat /\ string.token.born % Second \in Nat
      BY <3>1
    <3> QED BY <3>1, <3>2
  <2> QED BY <1>0, <2>1 DEF Expired
<1>3. Signed(item, string.token)' = Signed(item, string.token)
  BY <1>0 DEF Signed
<1> QED BY <1>0, <1>2, <1>3 DEF Verifies

\* Once refused for an item, a string stays refused until the service restarts.
THEOREM RefusalsFinal == TokensSpec => RefusalIsFinal
<1>1. TokensInv /\ [TokensNext]_tokenVars => StaysRefused
  BY RefusalStep
<1> QED BY <1>1, TokensAlways, PTL DEF TokensSpec, RefusalIsFinal

-----------------------------------------------------------------------------
(* RangeRead: a partial answer is the range that was asked for, and the body   *)
(* keeps the length that was announced.                                        *)

Responses ==
  [header : Headers, status : Nat, start : Nat, end : Int, stat : Int, open : BOOLEAN]

(* low never exceeds the size: the file has never been shorter since it was    *)
(* measured.                                                                   *)
SizesOK == size \in Int /\ low \in Int /\ -1 <= low /\ low <= size

(* The body starts empty, and stops at the announced length or at the end of   *)
(* the file.                                                                   *)
BodyOK ==
  /\ answer \in Responses /\ sent \in Nat
  /\ answer.status = 0 => sent = 0
  /\ sent <= Length
  /\ answer.status = 299 => low <= answer.end /\ answer.start + sent >= low

RangeInv == SizesOK /\ BodyOK /\ RangeIsWhatWasAsked

LEMMA NoAnswerTyped == NoAnswer \in Responses
<1>1. [form |-> "absent", n |-> 0, to |-> 0] \in Headers
  BY DEF Headers
<1> QED BY <1>1 DEF NoAnswer, Responses

LEMMA InitRange == ASSUME MaxSize \in Nat PROVE RangeInit => RangeInv
<1> SUFFICES ASSUME RangeInit PROVE RangeInv
  OBVIOUS
<1>1. answer = NoAnswer /\ sent = 0 /\ size = MaxSize /\ low = MaxSize
  BY DEF RangeInit
<1>2. NoAnswer.status = 0 /\ NoAnswer.start = 0 /\ NoAnswer.end = -1
  BY DEF NoAnswer
<1> QED BY <1>1, <1>2, NoAnswerTyped
        DEF RangeInv, SizesOK, BodyOK, Length, RangeIsWhatWasAsked

-----------------------------------------------------------------------------
(* The parser, form by form, over a file of n bytes.                           *)
LEMMA HeaderForms ==
  ASSUME MaxSize \in Nat, NEW h \in Headers
  PROVE  \/ h.form \in {"absent", "other_unit", "no_dash", "not_number", "dash_alone"}
         \/ h.form \in {"suffix", "from"} /\ h.n \in Nat
         \/ h.form = "range" /\ h.n \in Nat /\ h.to \in Nat
BY DEF Headers, Lengths

LEMMA AllAsked ==
  ASSUME NEW h, h.form \notin {"suffix", "from", "range"}, NEW n
  PROVE  Asked(h, n) = 0..(n - 1)
BY DEF Asked

\* Of three: the status, and the bytes announced.
Answers(parsed, h, n) ==
  /\ parsed[2] \in Nat /\ parsed[3] \in Int /\ parsed[2] <= parsed[3] + 1
  /\ parsed[1] \in {206, 416, 500}
  /\ parsed[1] = 206 => parsed[2]..parsed[3] = Asked(h, n)
  /\ parsed[1] = 416 /\ WellFormed(h) => Asked(h, n) = {}

LEMMA SuffixAnswers ==
  ASSUME NEW h, h.form = "suffix", h.n \in Nat, NEW n \in Nat
  PROVE  Answers(ParseSuffix(h, n), h, n)
BY DEF Answers, ParseSuffix, Refused, Asked, WellFormed

LEMMA BoundsAnswer ==
  ASSUME NEW h, NEW n \in Nat,
         \/ h.form = "dash_alone"
         \/ h.form = "from" /\ h.n \in Nat
         \/ h.form = "range" /\ h.n \in Nat /\ h.to \in Nat
  PROVE  Answers(ParseBounds(h, n), h, n)
<1>1. CASE h.form = "dash_alone"
  <2>1. ParseBounds(h, n) = IF n = 0 THEN Refused ELSE <<206, 0, n - 1>>
    BY <1>1 DEF ParseBounds, Smaller
  <2> QED BY <1>1, <2>1, AllAsked DEF Answers, Refused, WellFormed
<1>2. CASE h.form = "from" /\ h.n \in Nat
  BY <1>2 DEF Answers, ParseBounds, Refused, Asked, WellFormed, Smaller
<1>3. CASE h.form = "range" /\ h.n \in Nat /\ h.to \in Nat
  BY <1>3 DEF Answers, ParseBounds, Refused, Asked, WellFormed, Smaller
<1> QED BY <1>1, <1>2, <1>3

LEMMA ParserAnswers ==
  ASSUME MaxSize \in Nat, NEW h \in Headers, h.form # "absent", NEW n \in Nat
  PROVE  Answers(ParseRangeHeader(h, n), h, n)
<1>1. CASE h.form = "other_unit"
  <2>1. ParseRangeHeader(h, n) = <<206, 0, n - 1>>
    BY <1>1 DEF ParseRangeHeader, Whole
  <2> QED BY <1>1, <2>1, AllAsked DEF Answers
<1>2. CASE h.form \in {"no_dash", "not_number"}
  BY <1>2 DEF Answers, ParseRangeHeader, Refused, WellFormed
<1>3. CASE h.form = "suffix"
  BY <1>3, HeaderForms, SuffixAnswers DEF ParseRangeHeader
<1>4. CASE h.form \in {"dash_alone", "from", "range"}
  BY <1>4, HeaderForms, BoundsAnswer DEF ParseRangeHeader
<1> QED BY <1>1, <1>2, <1>3, <1>4, HeaderForms

-----------------------------------------------------------------------------
LEMMA ResponseKeeps ==
  ASSUME MaxSize \in Nat, RangeInv, NEW header \in Headers, CreateStreamingResponse(header)
  PROVE  RangeInv'
<1>1. size' = size /\ low' = size /\ sent' = 0 /\ size \in Int /\ -1 <= size
  BY DEF CreateStreamingResponse, RangeInv, SizesOK, BodyOK
<1>2. SizesOK'
  BY <1>1 DEF SizesOK
<1>3. CASE size = -1
  <2>1. answer' = [NoAnswer EXCEPT !.status = 404]
    BY <1>3 DEF CreateStreamingResponse
  <2>2. /\ answer' \in Responses /\ answer'.status = 404
        /\ answer'.start = 0 /\ answer'.end = -1
    <3>1. NoAnswer.start = 0 /\ NoAnswer.end = -1
      BY DEF NoAnswer
    <3> QED BY <2>1, <3>1, NoAnswerTyped DEF Responses
  <2> QED BY <1>1, <1>2, <2>2 DEF RangeInv, BodyOK, Length, RangeIsWhatWasAsked
<1>4. CASE size # -1 /\ header.form = "absent"
  <2>1. answer' = [header |-> header, status |-> 200, start |-> 0, end |-> size - 1,
                   stat |-> size, open |-> FALSE]
    BY <1>4 DEF CreateStreamingResponse
  <2>2. /\ answer' \in Responses /\ answer'.status = 200
        /\ answer'.start = 0 /\ answer'.end = size - 1
    BY <1>1, <2>1 DEF Responses
  <2> QED BY <1>1, <1>2, <1>4, <2>2 DEF RangeInv, BodyOK, Length, RangeIsWhatWasAsked
<1>5. CASE size # -1 /\ header.form # "absent"
  <2> DEFINE parsed == ParseRangeHeader(header, size)
  <2>1. answer' = [header |-> header, status |-> parsed[1], start |-> parsed[2],
                   end |-> parsed[3], stat |-> size, open |-> FALSE]
    BY <1>5 DEF CreateStreamingResponse
  <2>2. size \in Nat
    BY <1>1, <1>5
  <2>3. Answers(parsed, header, size)
    BY <1>5, <2>2, ParserAnswers
  <2> HIDE DEF parsed
  <2>4. /\ answer' \in Responses /\ answer'.header = header /\ answer'.stat = size
        /\ answer'.status = parsed[1] /\ answer'.start = parsed[2] /\ answer'.end = parsed[3]
    BY <1>1, <2>1, <2>3 DEF Responses, Answers
  <2>5. RangeIsWhatWasAsked'
    BY <2>3, <2>4 DEF Answers, RangeIsWhatWasAsked
  <2>6. BodyOK'
    BY <1>1, <2>3, <2>4 DEF Answers, BodyOK, Length
  <2> QED BY <1>2, <2>5, <2>6 DEF RangeInv
<1> QED BY <1>3, <1>4, <1>5

\* Opening, ending and failing change no range.
LEMMA SameRange ==
  ASSUME RangeInv, answer'.header = answer.header, answer'.stat = answer.stat,
         answer'.start = answer.start, answer'.end = answer.end,
         answer'.status \in {299, 599, answer.status}
  PROVE  RangeIsWhatWasAsked'
BY DEF RangeInv, RangeIsWhatWasAsked

LEMMA OpenKeeps == ASSUME RangeInv, OpenFile PROVE RangeInv'
<1>1. answer \in Responses /\ answer.status \in {200, 206}
  BY DEF RangeInv, BodyOK, OpenFile, Streaming
<1>2. answer' = [answer EXCEPT !.status = 599] \/ answer' = [answer EXCEPT !.open = TRUE]
  BY DEF OpenFile
<1>3. /\ answer' \in Responses /\ answer'.header = answer.header /\ answer'.stat = answer.stat
      /\ answer'.start = answer.start /\ answer'.end = answer.end
      /\ answer'.status \in {599, answer.status}
  <2>1. CASE answer' = [answer EXCEPT !.status = 599]
    BY <1>1, <2>1 DEF Responses
  <2>2. CASE answer' = [answer EXCEPT !.open = TRUE]
    BY <1>1, <2>2 DEF Responses
  <2> QED BY <1>2, <2>1, <2>2
<1>4. UNCHANGED <<size, low, sent>>
  BY DEF OpenFile
<1>5. RangeIsWhatWasAsked'
  BY <1>3, SameRange
<1> QED BY <1>1, <1>3, <1>4, <1>5 DEF RangeInv, SizesOK, BodyOK, Length

LEMMA ReadKeeps == ASSUME Chunk \in Nat, RangeInv, ReadChunk PROVE RangeInv'
<1> DEFINE there == size - (answer.start + sent)
<1>1. /\ answer \in Responses /\ answer.status \in {200, 206} /\ sent < Length
      /\ UNCHANGED <<size, low>>
  BY DEF RangeInv, BodyOK, ReadChunk, Streaming
<1>2. answer.start \in Nat /\ answer.end \in Int /\ sent \in Nat /\ there \in Int
  BY <1>1 DEF Responses, RangeInv, SizesOK, BodyOK
<1>3. SizesOK'
  BY <1>1 DEF RangeInv, SizesOK
<1>4. CASE there <= 0
  <2>1. answer' = [answer EXCEPT !.status = 299] /\ sent' = sent
    BY <1>4 DEF ReadChunk
  <2>2. /\ answer' \in Responses /\ answer'.header = answer.header /\ answer'.stat = answer.stat
        /\ answer'.start = answer.start /\ answer'.end = answer.end /\ answer'.status = 299
    BY <1>1, <2>1 DEF Responses
  <2>3. RangeIsWhatWasAsked'
    BY <2>2, SameRange
  <2>4. BodyOK'
    BY <1>1, <1>2, <1>4, <2>1, <2>2 DEF RangeInv, SizesOK, BodyOK, Length
  <2> QED BY <1>3, <2>3, <2>4 DEF RangeInv
<1>5. CASE there > 0
  <2>1. /\ sent' = sent + Smaller(Smaller(Chunk, Length - sent), there)
        /\ answer' = answer
    BY <1>2, <1>5 DEF ReadChunk
  <2>2. sent' \in Nat /\ sent' <= Length
    BY <1>1, <1>2, <1>5, <2>1 DEF Smaller, Length
  <2>3. RangeIsWhatWasAsked'
    BY <2>1 DEF RangeInv, RangeIsWhatWasAsked
  <2> QED BY <1>1, <1>3, <2>1, <2>2, <2>3 DEF RangeInv, BodyOK, Length
<1> QED BY <1>2, <1>4, <1>5

\* What happens to the file touches neither the answer nor what has been sent.
LEMMA FileKeeps ==
  ASSUME MaxSize \in Nat, RangeInv, RemoveFile \/ \E n \in 0..MaxSize : Resize(n)
  PROVE  RangeInv'
<1>1. UNCHANGED <<answer, sent>>
  BY DEF RemoveFile, Resize
<1>2. size' \in Int /\ low' \in Int /\ -1 <= low' /\ low' <= size' /\ low' <= low
  BY DEF RemoveFile, Resize, RangeInv, SizesOK, Smaller
<1>3. RangeIsWhatWasAsked'
  BY <1>1 DEF RangeInv, RangeIsWhatWasAsked
<1>4. answer.start \in Nat /\ answer.end \in Int /\ sent \in Nat /\ low \in Int
  BY DEF RangeInv, SizesOK, BodyOK, Responses
<1>5. BodyOK'
  BY <1>1, <1>2, <1>4 DEF RangeInv, BodyOK, Length
<1> QED BY <1>2, <1>3, <1>5 DEF RangeInv, SizesOK

LEMMA NextRange ==
  ASSUME MaxSize \in Nat, Chunk \in Nat
  PROVE  RangeInv /\ [RangeNext]_rangeVars => RangeInv'
<1> SUFFICES ASSUME RangeInv, [RangeNext]_rangeVars PROVE RangeInv'
  OBVIOUS
<1>1. ASSUME NEW header \in Headers, CreateStreamingResponse(header) PROVE RangeInv'
  BY <1>1, ResponseKeeps
<1>2. CASE UNCHANGED rangeVars
  BY <1>2 DEF rangeVars, RangeInv, SizesOK, BodyOK, Length, RangeIsWhatWasAsked
<1> QED BY <1>1, <1>2, OpenKeeps, ReadKeeps, FileKeeps DEF RangeNext

\* The bytes announced are those asked for, and 416 is said of nothing else.
THEOREM RangesRight ==
  ASSUME MaxSize \in Nat, Chunk \in Nat PROVE RangeSpec => []RangeIsWhatWasAsked
<1>1. RangeInv => RangeIsWhatWasAsked
  BY DEF RangeInv
<1> QED BY <1>1, InitRange, NextRange, PTL DEF RangeSpec

\* Whatever happens to the file, the body is never longer than announced, and
\* shorter only if the file was cut within the range.
THEOREM BodiesKeepLength ==
  ASSUME MaxSize \in Nat, Chunk \in Nat PROVE RangeSpec => []BodyKeepsItsLength
<1>1. RangeInv => BodyKeepsItsLength
  BY DEF RangeInv, BodyOK, BodyKeepsItsLength
<1> QED BY <1>1, InitRange, NextRange, PTL DEF RangeSpec
=============================================================================
