------------------------------- MODULE Tokens -------------------------------
(* Playback tokens of the media service: created with an item's details, sent *)
(* back with every request for its file, revoked, and forgotten or outdated   *)
(* by a restart.  What is sent is a string: a token, and one of the ways to   *)
(* spell its expiry, for int() reads more than one of them as the same number *)
(* while a revocation names one string.  Time is in ticks, several to the     *)
(* second, for create_media_token truncates it to whole seconds.              *)
EXTENDS Naturals, FiniteSets

CONSTANTS
  Items,      \* item ids; "global" is the pseudo item of requests without one
  Secrets,    \* values of jwt_secret, which the environment gives each process
  Second,     \* ticks of a second
  Ttl,        \* expires_in_seconds
  MaxTick,    \* bound on time, in ticks
  MaxTokens   \* bound on the tokens created

ASSUME TokensAssumption == Second \in Nat \ {0} /\ Ttl \in Nat

VARIABLES
  tick,       \* the time
  secret,     \* jwt_secret of the running service
  tokens,     \* the tokens created so far, with the time of creation
  revoked,    \* _REVOKED_TOKENS, strings
  epoch       \* restarts so far, at most one

tokenVars == <<tick, secret, tokens, revoked, epoch>>

TokensInit ==
  /\ tick = 0 /\ secret \in Secrets
  /\ tokens = {} /\ revoked = {} /\ epoch = 0

\* The expiry is int(time.time()) and the life added, here in ticks.  Tokens of
\* the older form, expiry:signature, carry no user.
CreateMediaToken(item, user) ==
  /\ Cardinality(tokens) < MaxTokens
  /\ tokens' = tokens \cup
       {[item |-> item, user |-> user, key |-> secret, born |-> tick,
         expiry |-> tick - (tick % Second) + Second * Ttl]}
  /\ UNCHANGED <<tick, secret, revoked, epoch>>

\* The strings that parse as a token: its expiry as str() wrote it, or otherwise.
Strings == [token : tokens, spelled : {"created", "otherwise"}]
Created(token) == [token |-> token, spelled |-> "created"]

NoToken == [token |-> "none"]
Master == [token |-> "master"]

-----------------------------------------------------------------------------
(* verify_media_token_user and authenticate_request, which change nothing.   *)
Expired_Early(token) == tick >= token.expiry     \* mutant: >= for >
Expired(token) == tick > token.expiry

\* The signature is taken of the number that the expiry was read as.
Signed(item, token) == token.item = item /\ token.key = secret

\* Only the revocation looks at the string itself.
Verifies(item, string) ==
  /\ string \in Strings \ revoked
  /\ ~Expired(string.token) /\ Signed(item, string.token)

UserOf(token) == IF token.user = "legacy" THEN "default_user" ELSE token.user

\* The query token, then the bearer as the master secret, as a global token
\* and as one of the item.
Authenticate_AnyScope(item, query, bearer) ==   \* mutant: a global query token will do
  IF Verifies(item, query) \/ Verifies("global", query) THEN UserOf(query.token)
  ELSE IF bearer = Master THEN "admin"
  ELSE IF Verifies("global", bearer) \/ Verifies(item, bearer) THEN UserOf(bearer.token)
  ELSE "401"
Authenticate(item, query, bearer) ==
  IF Verifies(item, query) THEN UserOf(query.token)
  ELSE IF bearer = Master THEN "admin"
  ELSE IF Verifies("global", bearer) \/ Verifies(item, bearer) THEN UserOf(bearer.token)
  ELSE "401"

-----------------------------------------------------------------------------
RevokeToken_LastOnly(string) ==      \* mutant: only the last revocation is kept
  /\ string \notin revoked
  /\ revoked' = {string}
  /\ UNCHANGED <<tick, secret, tokens, epoch>>
RevokeToken(string) ==
  /\ string \notin revoked
  /\ revoked' = revoked \cup {string}
  /\ UNCHANGED <<tick, secret, tokens, epoch>>

\* The registry is in memory.
Restart(key) ==
  /\ epoch = 0
  /\ secret' = key /\ revoked' = {} /\ epoch' = 1
  /\ UNCHANGED <<tick, tokens>>

ClockTick ==
  /\ tick < MaxTick
  /\ tick' = tick + 1
  /\ UNCHANGED <<secret, tokens, revoked, epoch>>

TokensNext ==
  \/ \E item \in Items \cup {"global"}, user \in {"default_user", "eve", "legacy"} :
       CreateMediaToken(item, user)
  \/ \E string \in Strings : RevokeToken(string)
  \/ \E key \in Secrets : Restart(key)
  \/ ClockTick

TokensSpec == TokensInit /\ [][TokensNext]_tokenVars

-----------------------------------------------------------------------------
\* What may be sent with a request: any token there is, however it is spelled,
\* alone or with another.
Presented == Strings \cup {NoToken}
Age(token) == tick - token.born

\* Every request that is let in is owed to a token of this very item (or, in
\* the header only, to a global one), created with the secret now in force and
\* no older than its life, sent as a string that this process has not revoked,
\* and runs as that token's user; or to the master secret.  Two tokens sent
\* together never mix.  (That the token itself is not revoked is not promised:
\* its expiry spelled otherwise makes another string, see auth.py:63-73.)
AccessIsOwed ==
  \A item \in Items, query \in Presented, bearer \in Presented \cup {Master} :
    LET user == Authenticate(item, query, bearer)
        Owed(string, scope) ==
          /\ string \in Strings \ revoked
          /\ string.token.item \in scope /\ string.token.key = secret
          /\ Age(string.token) <= Second * Ttl
          /\ user = IF string.token.user = "legacy" THEN "default_user"
                    ELSE string.token.user
    IN user # "401" => \/ Owed(query, {item})
                       \/ Owed(bearer, {item, "global"})
                       \/ bearer = Master /\ user = "admin"

\* A token as it was created works during its whole life, but for the part of
\* its last second that creation may truncate, whatever is sent with it.
LiveTokenWorks ==
  \A token \in tokens, item \in Items :
    /\ Created(token) \notin revoked /\ token.key = secret
    /\ Age(token) + Second - 1 <= Second * Ttl
    => /\ token.item = item =>
            \A bearer \in Presented :
              Authenticate(item, Created(token), bearer) = UserOf(token)
       /\ token.item \in {item, "global"} =>
            \A query \in Presented : Authenticate(item, query, Created(token)) # "401"

\* A string once refused for an item stays refused, until the service is started
\* again: then it may have forgotten that the string was revoked.
StaysRefused ==
  epoch' = epoch =>
    \A string \in Strings, item \in Items \cup {"global"} :
      ~Verifies(item, string) => ~Verifies(item, string)'
RefusalIsFinal == [][StaysRefused]_tokenVars
=============================================================================
