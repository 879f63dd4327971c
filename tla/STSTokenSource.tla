---------------------------- MODULE STSTokenSource ----------------------------
(***************************************************************************)
(* The bearer tokens of a driver call (gdc/pkg/auth).  Every request to the*)
(* management API first asks the cached token source of the call's client  *)
(* for a token.  A cached token that is fresh is served as it is; else the *)
(* STS source signs a JWT and exchanges it, with retries, for a new one.   *)
(* The cache (client-go's transport.NewCachedTokenSource) and the STS      *)
(* server are external.                                                    *)
(*                                                                         *)
(* Time is discrete.  It passes while a request is at the server and       *)
(* between requests; the back-off between attempts (310 ms in all) is      *)
(* shorter than the unit.  The STS counts a token's life from the moment it*)
(* issues it, the source from the moment it has read the answer.           *)
(***************************************************************************)
EXTENDS Integers

CONSTANTS
  Lifetime,        \* expires_in of the tokens
  Leeway,          \* the cache stops serving a token this long before its end
  RequestTimeout,  \* of the http.Client, the reading of the body included
  Attempts,        \* steps of retry.DefaultBackoff
  MaxTime          \* bound: the clock stops here

ASSUME TimeAssumption ==
  /\ {Lifetime, RequestTimeout, Attempts, MaxTime} \subseteq Nat \ {0}
  /\ Leeway \in Nat

VARIABLES
  now,         \* the clock
  keyParses,   \* the service account holds an EC private key
  cached,      \* the token in the cache
  call,        \* the Token() call
  answer       \* what the last Token() call returned

vars == <<now, keyParses, cached, call, answer>>

\* expiry: until when the client takes the token for valid.  validUntil: until
\* when the server accepts it.  The clock starts at 1: no token ends at 0.
Token == [expiry : Nat, validUntil : Nat]
NoToken == [expiry |-> 0, validUntil |-> 0]

Answer == {"none", "token", "empty token", "old token", "error"}

\* asked, sent: when Token() was called, when the request was sent.
Call == [pc : {"idle", "sign", "send", "sent", "issued"}, asked : Nat,
         attempt : 0 .. Attempts, sent : Nat, validUntil : Nat]
NoCall == [pc |-> "idle", asked |-> 0, attempt |-> 0, sent |-> 0,
           validUntil |-> 0]

TypeOK ==
  /\ now \in 1 .. MaxTime
  /\ keyParses \in BOOLEAN
  /\ cached \in Token
  /\ call \in Call
  /\ answer \in Answer

Init ==
  /\ now = 1
  /\ keyParses \in BOOLEAN
  /\ cached = NoToken
  /\ call = NoCall
  /\ answer = "none"

\* Mutant: the cache serves a token up to its end.
FreshToTheEnd(token) == token.expiry > now

\* A token the cache serves without asking for a new one.
Fresh(token) == token.expiry - Leeway > now

\* A request to the management API asks for a token.
RoundTrip ==
  /\ call.pc = "idle"
  /\ IF Fresh(cached)
     THEN answer' = "token" /\ UNCHANGED call
     ELSE call' = [NoCall EXCEPT !.pc = "sign", !.asked = now] /\ UNCHANGED answer
  /\ UNCHANGED <<now, keyParses, cached>>

\* The STS source returns an error: the cache (external) falls back on the
\* token it has, expired or not.
RotationFails ==
  /\ call' = NoCall
  /\ answer' = IF cached = NoToken THEN "error" ELSE "old token"
  /\ UNCHANGED <<now, keyParses, cached>>

\* jwtTokenSource signs the JWT, which takes the private key.
SignJWT ==
  /\ call.pc = "sign"
  /\ \/ ~keyParses /\ RotationFails
     \/ /\ keyParses
        /\ call' = [call EXCEPT !.pc = "send", !.attempt = 1]
        /\ UNCHANGED <<now, keyParses, cached, answer>>

SendRequest ==
  /\ call.pc = "send"
  /\ call' = [call EXCEPT !.pc = "sent", !.sent = now]
  /\ UNCHANGED <<now, keyParses, cached, answer>>

\* The STS issues a token; its answer is on the way.
Issue ==
  /\ call.pc = "sent"
  /\ call' = [call EXCEPT !.pc = "issued", !.validUntil = now + Lifetime]
  /\ UNCHANGED <<now, keyParses, cached, answer>>

\* Status 200, the token read, and put into the cache.
ReceiveToken ==
  /\ call.pc = "issued"
  /\ cached' = [expiry |-> now + Lifetime, validUntil |-> call.validUntil]
  /\ call' = NoCall
  /\ answer' = "token"
  /\ UNCHANGED <<now, keyParses>>

\* Status 200 and JSON without the fields of a token: nothing checks them.  A
\* token that no server accepts and that ends now takes the place of the one
\* that was cached.
ReceiveEmpty ==
  /\ call.pc \in {"sent", "issued"}
  /\ cached' = [expiry |-> now, validUntil |-> now]
  /\ call' = NoCall
  /\ answer' = "empty token"
  /\ UNCHANGED <<now, keyParses>>

\* Any other status below 500, or a body that is no JSON: not retried.
RefuseRequest ==
  /\ call.pc \in {"sent", "issued"}
  /\ RotationFails

\* Mutant: one attempt too many.
OneMoreAttempt == call.attempt <= Attempts

\* retry.OnError has steps left.
AttemptLeft == call.attempt < Attempts

\* A status of 500 or more, a transport error or the time-out, which may also
\* hit an answer on its way: retried while attempts are left.
RequestFails ==
  /\ call.pc \in {"sent", "issued"}
  /\ \/ /\ AttemptLeft
        /\ call' = [call EXCEPT !.pc = "send", !.attempt = @ + 1]
        /\ UNCHANGED <<now, keyParses, cached, answer>>
     \/ ~AttemptLeft /\ RotationFails

\* Mutant: one time-out for all attempts.
TimeLeftOfAll == now < call.asked + Attempts * RequestTimeout

\* http.Client.Timeout of the request that is on its way.
TimeLeft == now < call.sent + RequestTimeout

\* Time passes, but a request is over when its time-out is.
Tick ==
  /\ now < MaxTime
  /\ \/ call.pc = "idle"
     \/ call.pc \in {"sent", "issued"} /\ TimeLeft
  /\ now' = now + 1
  /\ UNCHANGED <<keyParses, cached, call, answer>>

Next ==
  \/ RoundTrip \/ SignJWT \/ SendRequest \/ Issue \/ ReceiveToken
  \/ ReceiveEmpty \/ RefuseRequest \/ RequestFails \/ Tick

Spec == Init /\ [][Next]_vars

-----------------------------------------------------------------------------
\* What the cache serves without asking may have expired at the server, for
\* the expiry is counted from the end of the exchange, but by less than the
\* time-out of one request exceeds the leeway, however the attempts went.
CacheNearlyValid ==
  Fresh(cached) => now + Leeway < cached.validUntil + RequestTimeout

\* Token() takes no context: a driver call whose own deadline has passed waits
\* for it.  The wait is bounded by the attempts and the time-out of each.
TokenInTime ==
  call.pc # "idle" => now <= call.asked + Attempts * RequestTimeout

\* "The CachedSTSTokenSource will request a new STS token when the STS token
\* it is expired or nearing the expiry time" (sts.go:50-51): a token served
\* without a request has not expired.  Refuted: an answer may be on its way
\* for longer than the leeway.
ServesOnlyValid == Fresh(cached) => now < cached.validUntil
=============================================================================
