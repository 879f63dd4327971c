---------------------------- MODULE GDCClientProofs ----------------------------
(***************************************************************************)
(* What holds of STSTokenSource, and of its user GDCClient, for every      *)
(* lifetime, leeway, time-out, number of attempts and time-out of a wait.  *)
(*                                                                         *)
(* The argument: but for the beginning of a call, which empties the cache, *)
(* a step of a driver call is a step of the token source or leaves it      *)
(* alone, so the invariant of the token source holds of the client too.    *)
(***************************************************************************)
EXTENDS GDCClient, TLAPS

-----------------------------------------------------------------------------
(* The token source by itself.                                             *)

\* When the current attempt may have begun at the latest.
Begun(n) == call.asked + (n - 1) * RequestTimeout

\* How far the clock is in a call: every attempt takes one time-out at most.
Paced ==
  /\ call.pc = "sign" => now = call.asked
  /\ call.pc \in {"send", "sent", "issued"} =>
       call.attempt \in 1 .. Attempts
  /\ call.pc = "send" => now <= Begun(call.attempt)
  /\ call.pc \in {"sent", "issued"} =>
       /\ call.sent <= Begun(call.attempt)
       /\ now <= call.sent + RequestTimeout
       /\ call.sent <= now

\* A token was issued after the request for it was sent, so the two counts of
\* its life differ by one time-out at most.
CountsAgree ==
  /\ cached.expiry <= cached.validUntil + RequestTimeout
  /\ call.pc = "issued" => call.sent + Lifetime <= call.validUntil

TimeInv == TypeOK /\ Paced /\ CountsAgree

\* The bound on the attempts, which no backend multiplies out by itself.
LEMMA AttemptsFit ==
  ASSUME NEW n \in Nat, n <= Attempts
  PROVE  /\ n * RequestTimeout \in Nat
         /\ n * RequestTimeout <= Attempts * RequestTimeout
         /\ (n + 1) * RequestTimeout = n * RequestTimeout + RequestTimeout
         /\ (n - 1) * RequestTimeout = n * RequestTimeout - RequestTimeout
<1>1. RequestTimeout \in Nat /\ Attempts \in Nat
  BY TimeAssumption
<1>2. /\ (n + 1) * RequestTimeout = n * RequestTimeout + RequestTimeout
      /\ (n - 1) * RequestTimeout = n * RequestTimeout - RequestTimeout
      /\ n * RequestTimeout \in Int
  BY <1>1
<1>3. n * RequestTimeout >= 0
  BY <1>1
<1>4. (Attempts - n) * RequestTimeout >= 0
  BY <1>1
<1>5. (Attempts - n) * RequestTimeout
        = Attempts * RequestTimeout - n * RequestTimeout
  BY <1>1
<1> QED BY <1>1, <1>2, <1>3, <1>4, <1>5

\* The idle record is a call.
LEMMA NoCallType == NoCall \in Call
BY TimeAssumption DEF NoCall, Call

\* The token source starts in the invariant.
LEMMA InitTime == Init => TimeInv
BY NoCallType, TimeAssumption
   DEF Init, TimeInv, TypeOK, Token, NoToken, Answer, NoCall, Paced, CountsAgree

\* A call that ends leaves the clock and the token alone or stores a new one.
LEMMA FailureKeeps ==
  ASSUME TimeInv, RotationFails
  PROVE  TimeInv'
BY NoCallType
   DEF TimeInv, RotationFails, TypeOK, Answer, NoCall, Paced, CountsAgree

\* Every step of the call, the server and the clock keeps the invariant.
LEMMA NextTime ==
  ASSUME TimeInv, [Next]_vars
  PROVE  TimeInv'
<1> USE DEF TimeInv, TypeOK
<1>a. /\ Lifetime \in Nat /\ RequestTimeout \in Nat /\ Attempts \in Nat
      /\ 1 \in 0 .. Attempts /\ MaxTime \in Nat /\ 1 \in 1 .. MaxTime
  BY TimeAssumption
<1>0. /\ call \in Call /\ cached \in Token /\ now \in Nat
      /\ call.asked \in Nat /\ call.sent \in Nat /\ call.validUntil \in Nat
      /\ call.attempt \in 0 .. Attempts
      /\ cached.expiry \in Nat /\ cached.validUntil \in Nat
  BY <1>a DEF Call, Token
<1>b. now + Lifetime \in Nat
  BY <1>0, <1>a
<1>1. CASE RoundTrip
  <2>1. CASE Fresh(cached)
    BY <1>1, <2>1 DEF RoundTrip, Answer, Paced, CountsAgree, Begun
  <2>2. CASE ~Fresh(cached)
    <3> DEFINE next == [NoCall EXCEPT !.pc = "sign", !.asked = now]
    <3>1. next \in Call /\ next.pc = "sign" /\ next.asked = now
      BY <1>0, NoCallType DEF Call
    <3>2. call' = next /\ UNCHANGED <<now, keyParses, cached, answer>>
      BY <1>1, <2>2 DEF RoundTrip
    <3> HIDE DEF next
    <3> QED BY <3>1, <3>2 DEF Paced, CountsAgree
  <2> QED BY <2>1, <2>2
<1>2. CASE SignJWT
  <2>1. CASE RotationFails
    BY <2>1, FailureKeeps
  <2>2. CASE ~RotationFails
    <3> DEFINE next == [call EXCEPT !.pc = "send", !.attempt = 1]
    <3>1. /\ next \in Call /\ next.pc = "send" /\ next.asked = call.asked
          /\ next.attempt = 1
      BY <1>0, <1>a DEF Call
    <3>2. /\ call' = next /\ now = call.asked
          /\ UNCHANGED <<now, keyParses, cached, answer>>
      BY <1>2, <2>2 DEF SignJWT, Paced
    <3>3. (1 - 1) * RequestTimeout = 0
      BY <1>a
    <3> HIDE DEF next
    <3>4. TypeOK' /\ CountsAgree'
      BY <3>1, <3>2 DEF CountsAgree
    <3>5. Paced'
      BY <1>0, <1>a, <3>1, <3>2, <3>3 DEF Paced, Begun
    <3> QED BY <3>4, <3>5
  <2> QED BY <2>1, <2>2
<1>3. CASE SendRequest
  <2> DEFINE next == [call EXCEPT !.pc = "sent", !.sent = now]
  <2>1. /\ next \in Call /\ next.pc = "sent" /\ next.asked = call.asked
        /\ next.attempt = call.attempt /\ next.sent = now
    BY <1>0, <1>a DEF Call
  <2>2. /\ call' = next /\ call.pc = "send"
        /\ UNCHANGED <<now, keyParses, cached, answer>>
    BY <1>3 DEF SendRequest
  <2> HIDE DEF next
  <2> QED BY <1>0, <1>a, <2>1, <2>2 DEF Paced, CountsAgree, Begun
<1>4. CASE Issue
  <2> DEFINE next == [call EXCEPT !.pc = "issued", !.validUntil = now + Lifetime]
  <2>1. /\ next \in Call /\ next.pc = "issued" /\ next.asked = call.asked
        /\ next.attempt = call.attempt /\ next.sent = call.sent
        /\ next.validUntil = now + Lifetime
    BY <1>0, <1>b DEF Call
  <2>2. /\ call' = next /\ call.pc = "sent"
        /\ UNCHANGED <<now, keyParses, cached, answer>>
    BY <1>4 DEF Issue
  <2> HIDE DEF next
  <2> QED BY <1>0, <1>a, <2>1, <2>2 DEF Paced, CountsAgree, Begun
<1>5. CASE ReceiveToken
  <2>1. now + Lifetime <= call.validUntil + RequestTimeout
    BY <1>0, <1>a, <1>5 DEF ReceiveToken, Paced, CountsAgree
  <2>2. /\ cached' = [expiry |-> now + Lifetime, validUntil |-> call.validUntil]
        /\ call' = NoCall /\ answer' = "token" /\ UNCHANGED <<now, keyParses>>
    BY <1>5 DEF ReceiveToken
  <2> QED
    BY <1>0, <1>b, <2>1, <2>2, NoCallType
    DEF NoCall, Token, Answer, Paced, CountsAgree
<1>6. CASE RefuseRequest
  BY <1>6, FailureKeeps DEF RefuseRequest
<1>7. CASE RequestFails
  <2>1. CASE RotationFails
    BY <2>1, FailureKeeps
  <2>2. CASE ~RotationFails
    <3> DEFINE next == [call EXCEPT !.pc = "send", !.attempt = @ + 1]
    <3>1. /\ call' = next /\ call.attempt < Attempts
          /\ call.pc \in {"sent", "issued"}
          /\ UNCHANGED <<now, keyParses, cached, answer>>
      BY <1>7, <2>2 DEF RequestFails, AttemptLeft
    <3>2. /\ call.attempt + 1 \in 0 .. Attempts
          /\ call.attempt + 1 \in 1 .. Attempts
          /\ call.attempt \in Nat /\ call.attempt <= Attempts
      BY <1>0, <1>a, <3>1
    <3>3. /\ next \in Call /\ next.pc = "send" /\ next.asked = call.asked
          /\ next.attempt = call.attempt + 1
      BY <1>0, <3>2 DEF Call
    <3>4. now <= call.asked + call.attempt * RequestTimeout
      BY <1>0, <1>a, <3>1, <3>2, AttemptsFit DEF Paced, Begun
    <3>5. call.attempt + 1 - 1 = call.attempt
      BY <1>0
    <3> HIDE DEF next
    <3> QED BY <1>0, <1>a, <3>1, <3>2, <3>3, <3>4, <3>5 DEF Paced, CountsAgree, Begun
  <2> QED BY <2>1, <2>2
<1>8. CASE Tick
  BY <1>0, <1>a, <1>8 DEF Tick, TimeLeft, Paced, CountsAgree, Begun
<1>9. CASE UNCHANGED vars
  BY <1>9 DEF vars, Paced, CountsAgree, Begun
<1>10. CASE ReceiveEmpty
  <2>1. /\ cached' = [expiry |-> now, validUntil |-> now] /\ call' = NoCall
        /\ answer' = "empty token" /\ UNCHANGED <<now, keyParses>>
    BY <1>10 DEF ReceiveEmpty
  <2>2. call'.pc = "idle" /\ cached'.expiry = now /\ cached'.validUntil = now
    BY <2>1 DEF NoCall
  <2>3. TypeOK'
    BY <1>0, <2>1, NoCallType DEF Token, Answer
  <2>4. now <= now + RequestTimeout
    BY <1>0, <1>a
  <2>5. Paced' /\ CountsAgree'
    BY <2>2, <2>4 DEF Paced, CountsAgree
  <2> QED
    BY <2>3, <2>5
<1> QED
  BY <1>1, <1>2, <1>3, <1>4, <1>5, <1>6, <1>7, <1>8, <1>9, <1>10 DEF Next

\* The invariant holds in every reachable state.
LEMMA TimeInductive == Spec => []TimeInv
BY InitTime, NextTime, PTL DEF Spec

\* Whatever the lifetime, the leeway and the time-out: a token that the cache
\* serves without a request is less than time-out minus leeway past the end
\* the server gave it.
THEOREM CacheServesNearlyValid == Spec => []CacheNearlyValid
<1>1. TimeInv => CacheNearlyValid
  BY TimeAssumption DEF TimeInv, TypeOK, Token, CountsAgree, CacheNearlyValid, Fresh
<1> QED BY <1>1, TimeInductive, PTL

\* In the invariant a Token() call is not older than its attempts times the
\* time-out.
LEMMA InTimeBound ==
  ASSUME TimeInv, call.pc # "idle"
  PROVE  now <= call.asked + Attempts * RequestTimeout
<1>1. call.asked \in Nat /\ call.sent \in Nat /\ now \in Nat
      /\ RequestTimeout \in Nat /\ Attempts \in Nat
      /\ call.pc \in {"sign", "send", "sent", "issued"}
  BY TimeAssumption DEF TimeInv, TypeOK, Call
<1>2. CASE call.pc = "sign"
  <2>1. Attempts * RequestTimeout \in Nat
    BY <1>1, AttemptsFit
  <2> QED BY <1>1, <1>2, <2>1 DEF TimeInv, Paced
<1>3. CASE call.pc \in {"send", "sent", "issued"}
  <2> DEFINE n == call.attempt
  <2>1. n \in Nat /\ n <= Attempts
    BY <1>3, TimeAssumption DEF TimeInv, Paced
  <2>2. now <= call.asked + (n - 1) * RequestTimeout + RequestTimeout
    BY <1>1, <1>3, <2>1, AttemptsFit DEF TimeInv, Paced, Begun
  <2> HIDE DEF n
  <2> QED BY <1>1, <2>1, <2>2, AttemptsFit
<1> QED BY <1>1, <1>2, <1>3

\* So the invariant bounds the call.
LEMMA TimeInvBounds == TimeInv => TokenInTime
BY InTimeBound DEF TokenInTime

\* A Token() call is never older than its attempts times the time-out.
THEOREM TokenReturnsInTime == Spec => []TokenInTime
BY TimeInvBounds, TimeInductive, PTL

-----------------------------------------------------------------------------
(* The client.                                                             *)

\* A request is sent, and time passes while it waits, in time only; Token() was
\* asked in time.
InWait ==
  session.waiting =>
    /\ session.pc # "none"
    /\ session.pc = "ready" => now <= session.deadline
    /\ session.pc = "sent" => now <= session.deadline
    /\ session.pc = "token" /\ call.pc # "idle" => call.asked < session.deadline
    /\ session.pc = "token" => now <= session.deadline + Attempts * RequestTimeout

\* When the token of the call was issued.
OwnToken ==
  /\ session.pc # "none" => session.began <= now
  /\ session.pc # "none" /\ Valid(cached) =>
       session.began + Lifetime <= cached.validUntil
  /\ session.pc # "token" => call.pc = "idle"
  /\ call.pc # "idle" => session.began <= call.asked /\ call.asked <= now
  /\ call.pc \in {"sent", "issued"} => call.asked <= call.sent

\* What the last answer says of the token in the cache; a new one is fresh.
Provenance ==
  /\ session.pc = "token" /\ call.pc = "idle" =>
       answer \in {"token", "empty token", "old token", "error"}
  /\ session.pc = "sent" =>
       /\ answer \in {"token", "empty token", "old token"}
       /\ session.sent <= now
  /\ session.pc = "token" /\ call.pc = "idle" /\ answer = "token" =>
       (Lifetime > Leeway => now + Leeway < cached.expiry)
  /\ session.pc = "sent" /\ answer = "token" =>
       (Lifetime > Leeway => session.sent + Leeway < cached.expiry)

ClientInv == TimeInv /\ ClientTypeOK /\ InWait /\ OwnToken /\ Provenance

\* The step of the token source, or none, in every step but the first of a call.
LEMMA SourceStep ==
  ASSUME ClientNext
  PROVE  [Next]_vars \/ \E helper \in BOOLEAN : Begin(helper)
BY DEF ClientNext, Client, mintSTSToken, Ask, TokenStep, NoRequest, Send, Accepted,
  Refused, StartWait, WaitTimesOut, PrintToken, ClientTick, Next, vars

\* The constants are naturals.
LEMMA Bounds ==
  /\ Lifetime \in Nat /\ Lifetime > 0 /\ Leeway \in Nat /\ WaitTimeout \in Nat
  /\ RequestTimeout \in Nat /\ Attempts \in Nat /\ MaxTime \in Nat
  /\ Attempts * RequestTimeout \in Nat
<1>1. Attempts \in Nat /\ RequestTimeout \in Nat
  BY TimeAssumption
<1> QED
  BY <1>1, AttemptsFit, TimeAssumption, WaitTimeoutAssumption

\* The times of a call, as numbers.
LEMMA Numbers ==
  ASSUME ClientInv
  PROVE  /\ now \in Nat /\ call.asked \in Nat /\ call.sent \in Nat
         /\ call.validUntil \in Nat /\ cached.expiry \in Nat
         /\ cached.validUntil \in Nat
         /\ session.began \in Nat /\ session.deadline \in Nat
         /\ session.sent \in Nat /\ session \in Session
BY TimeAssumption DEF ClientInv, TimeInv, TypeOK, ClientTypeOK, Call, Token, Session

\* A client starts in the invariant.
LEMMA InitClient == ClientInit => ClientInv
<1> SUFFICES ASSUME ClientInit PROVE ClientInv
  OBVIOUS
<1>1. TimeInv /\ TypeOK
  BY InitTime DEF ClientInit, TimeInv
<1>2. ClientTypeOK
  BY <1>1 DEF ClientInit, ClientTypeOK, Session, NoSession
<1>3. InWait /\ OwnToken /\ Provenance
  BY DEF ClientInit, Init, NoSession, NoCall, InWait, OwnToken, Provenance
<1> QED
  BY <1>1, <1>2, <1>3 DEF ClientInv

\* The token source stays in its invariant when a call begins.
LEMMA BeginTime ==
  ASSUME TimeInv, NEW helper, Begin(helper)
  PROVE  TimeInv'
<1>1. UNCHANGED <<now, keyParses, call>> /\ cached' = NoToken /\ answer' = "none"
  BY DEF Begin, NewCache
<1>2. NoToken \in Token /\ 0 <= 0 + RequestTimeout
  BY Bounds DEF NoToken, Token
<1>3. TypeOK'
  BY <1>1, <1>2 DEF TimeInv, TypeOK, Answer
<1>4. Paced'
  BY <1>1 DEF TimeInv, Paced, Begun
<1>5. CountsAgree'
  BY <1>1, <1>2 DEF TimeInv, CountsAgree, NoToken
<1> QED
  BY <1>3, <1>4, <1>5 DEF TimeInv

\* A call that is over has no obligations.
LEMMA EndsType ==
  ASSUME NEW result \in {"OK", "Internal", "Unauthenticated", "DeadlineExceeded",
                         "printed", "failed"},
         Ends(result)
  PROVE  session' \in Session /\ session'.pc = "none" /\ ~session'.waiting
BY DEF Ends, NoSession, Session

\* Every step keeps the token source's invariant and the types.
LEMMA NextTypes ==
  ASSUME ClientInv, [ClientNext]_clientVars
  PROVE  (TimeInv /\ ClientTypeOK)'
<1>1. TimeInv'
  <2>1. [Next]_vars => TimeInv'
    BY NextTime DEF ClientInv
  <2>2. ASSUME NEW helper, Begin(helper) PROVE TimeInv'
    BY <2>2, BeginTime DEF ClientInv
  <2>3. UNCHANGED clientVars => UNCHANGED vars
    BY DEF clientVars
  <2> QED
    BY <2>1, <2>2, <2>3, SourceStep
<1>2. UNCHANGED config
  BY DEF ClientNext, Client, mintSTSToken, Begin, Ask, TokenStep, NoRequest, Send,
    Accepted, Refused, StartWait, WaitTimesOut, PrintToken, ClientTick, clientVars, config
<1>3. session' \in Session
  <2> USE Numbers, Bounds
  <2>1. ASSUME NEW helper \in BOOLEAN, Begin(helper) PROVE session' \in Session
    BY <2>1 DEF Begin, NoSession, Session
  <2>2. CASE Ask \/ Accepted \/ Send
    <3>1. /\ [session EXCEPT !.pc = "token"] \in Session
          /\ [session EXCEPT !.pc = "ready", !.sent = 0] \in Session
          /\ [session EXCEPT !.pc = "sent", !.sent = now] \in Session
      BY DEF Session
    <3> QED
      BY <2>2, <3>1, EndsType DEF Ask, Accepted, Send
  <2>3. CASE StartWait
    <3>1. now + WaitTimeout \in Nat
      OBVIOUS
    <3> QED
      BY <2>3, <3>1 DEF StartWait, Session
  <2>4. CASE Client \/ mintSTSToken
    BY <2>1, <2>4, EndsType DEF Client, mintSTSToken
  <2>5. CASE NoRequest \/ Refused \/ WaitTimesOut \/ PrintToken
    BY <2>5, EndsType DEF NoRequest, Refused, RefusalCodes, WaitTimesOut, PrintToken
  <2>6. CASE TokenStep \/ ClientTick \/ UNCHANGED clientVars
    BY <2>6 DEF TokenStep, ClientTick, clientVars
  <2> QED
    BY <2>2, <2>3, <2>4, <2>5, <2>6 DEF ClientNext
<1> QED
  BY <1>1, <1>2, <1>3 DEF TimeInv, ClientTypeOK, ClientInv, config

\* The clock moves by one.
LEMMA TickNow == Tick => now' = now + 1 /\ UNCHANGED <<cached, call>>
BY DEF Tick

\* What the token source does within a call.
LEMMA SourceTimes ==
  ASSUME ClientInv, TokenStep
  PROVE  /\ now' = now /\ UNCHANGED session /\ session.pc = "token"
         /\ call'.pc # "idle" => call'.asked = call.asked /\ call.pc # "idle"
         /\ call'.pc \in {"sent", "issued"} =>
              \/ call'.sent = call.sent /\ call.pc = "sent"
              \/ call'.sent = now
         /\ \/ UNCHANGED cached
            \/ /\ call.pc = "issued" /\ cached' = [expiry |-> now + Lifetime,
                                                 validUntil |-> call.validUntil]
            \/ cached' = [expiry |-> now, validUntil |-> now]
<1>1. session.pc = "token" /\ UNCHANGED session /\ call \in Call
  BY DEF TokenStep, ClientInv, TimeInv, TypeOK
<1>2. CASE RotationFails
  BY <1>1, <1>2 DEF RotationFails, NoCall
<1>3. CASE SignJWT \/ SendRequest \/ Issue \/ RequestFails
  <2>1. CASE SignJWT /\ ~RotationFails
    BY <1>1, <2>1 DEF SignJWT, Call
  <2>2. CASE SendRequest
    BY <1>1, <2>2 DEF SendRequest, Call
  <2>3. CASE Issue
    BY <1>1, <2>3 DEF Issue, Call
  <2>4. CASE RequestFails /\ ~RotationFails
    BY <1>1, <2>4 DEF RequestFails, Call
  <2> QED
    BY <1>2, <1>3, <2>1, <2>2, <2>3, <2>4
<1>4. CASE ReceiveToken
  BY <1>1, <1>4 DEF ReceiveToken, NoCall
<1>5. CASE RefuseRequest
  BY <1>2, <1>5 DEF RefuseRequest
<1>6. CASE ReceiveEmpty
  BY <1>1, <1>6 DEF ReceiveEmpty, NoCall
<1> QED
  BY <1>3, <1>4, <1>5, <1>6 DEF TokenStep

\* The bound on Token() holds after a step as well.
LEMMA NextBound == TimeInv' => TokenInTime'
BY TimeInvBounds, PTL

\* A wait's clock stays within its bounds.
LEMMA NextInWait ==
  ASSUME ClientInv, [ClientNext]_clientVars
  PROVE  InWait'
<1> USE Numbers, Bounds DEF InWait
<1>0. InWait /\ TimeInv
  BY DEF ClientInv
<1>1. ASSUME NEW helper \in BOOLEAN, Begin(helper) PROVE InWait'
  BY <1>1 DEF Begin, NoSession
<1>2. ASSUME NEW result \in {"OK", "Internal", "Unauthenticated", "DeadlineExceeded",
                             "printed", "failed"}, Ends(result)
      PROVE  InWait'
  BY <1>2, EndsType
<1>3. CASE Ask
  <2>1. session' = [session EXCEPT !.pc = "token"] /\ now' = now /\ InTime
        /\ session.pc = "ready"
    BY <1>3 DEF Ask, RoundTrip
  <2>2. call'.pc # "idle" => call'.asked = now
    BY <1>3 DEF Ask, RoundTrip, NoCall
  <2>3. session'.deadline = session.deadline /\ session'.waiting = session.waiting
        /\ session'.pc = "token"
    BY <2>1 DEF Session
  <2> QED
    BY <1>0, <2>1, <2>2, <2>3 DEF InTime
<1>4. CASE TokenStep
  BY <1>0, <1>4, SourceTimes
<1>5. CASE Send
  <2>1. CASE InTime /\ session' = [session EXCEPT !.pc = "sent", !.sent = now]
    <3>1. /\ session'.pc = "sent" /\ session'.waiting = session.waiting
          /\ session'.deadline = session.deadline /\ now' = now
      BY <1>5, <2>1 DEF Send, Session, vars
    <3> QED
      BY <2>1, <3>1 DEF InTime
  <2> QED
    BY <1>2, <1>5, <2>1 DEF Send
<1>6. CASE Accepted
  BY <1>0, <1>2, <1>6 DEF Accepted, Session, vars
<1>7. CASE StartWait
  <2>1. session' = [session EXCEPT !.waiting = TRUE, !.deadline = now + WaitTimeout]
        /\ session.pc = "ready" /\ now' = now
    BY <1>7 DEF StartWait, vars
  <2>2. session'.pc = "ready" /\ session'.deadline = now + WaitTimeout
    BY <2>1 DEF Session
  <2> QED
    BY <2>1, <2>2
<1>8. CASE ClientTick
  <2>1. UNCHANGED session /\ now' = now + 1 /\ UNCHANGED call
    BY <1>8, TickNow DEF ClientTick
  <2>2. CASE session.pc = "none"
    BY <1>0, <2>1, <2>2
  <2>3. CASE session.pc \in {"ready", "sent"} /\ InTime
    BY <2>1, <2>3 DEF InTime
  <2>4. CASE session.pc = "token" /\ call.pc # "idle"
    <3>1. now' <= call.asked + Attempts * RequestTimeout
      <4>1. TimeInv' /\ call'.pc # "idle"
        BY <2>1, <2>4, NextTypes
      <4>2. now' <= call'.asked + Attempts * RequestTimeout
        BY <4>1, NextBound DEF TokenInTime
      <4> QED
        BY <2>1, <4>2
    <3> QED
      BY <1>0, <2>1, <2>4, <3>1
  <2> QED
    BY <1>8, <2>2, <2>3, <2>4 DEF ClientTick
<1>9. CASE Client \/ mintSTSToken
  BY <1>1, <1>2, <1>9 DEF Client, mintSTSToken
<1>10. CASE NoRequest \/ Refused \/ WaitTimesOut \/ PrintToken
  BY <1>2, <1>10 DEF NoRequest, Refused, RefusalCodes, WaitTimesOut, PrintToken
<1>11. CASE UNCHANGED clientVars
  BY <1>0, <1>11 DEF clientVars, vars
<1> QED
  BY <1>3, <1>4, <1>5, <1>6, <1>7, <1>8, <1>9, <1>10, <1>11 DEF ClientNext

\* A call asks for its tokens after it began.
LEMMA NextOwnToken ==
  ASSUME ClientInv, [ClientNext]_clientVars
  PROVE  OwnToken'
<1> USE Numbers, Bounds DEF OwnToken, Valid
<1>0. OwnToken /\ TimeInv /\ ClientTypeOK
  BY DEF ClientInv
<1>1. ASSUME NEW helper \in BOOLEAN, Begin(helper), session.pc = "none" PROVE OwnToken'
  <2>1. session'.began = now /\ cached'.validUntil = 0 /\ UNCHANGED <<now, call>>
    BY <1>1 DEF Begin, NoSession, NewCache, NoToken
  <2>2. call.pc = "idle"
    BY <1>0, <1>1 DEF OwnToken
  <2> QED
    BY <1>0, <2>1, <2>2
<1>2. ASSUME NEW result \in {"OK", "Internal", "Unauthenticated", "DeadlineExceeded",
                             "printed", "failed"}, Ends(result), UNCHANGED vars,
             session.pc \in {"sent", "none"} \/ call.pc = "idle"
      PROVE  OwnToken'
  BY <1>0, <1>2, EndsType DEF vars
<1>3. CASE Ask
  <2>1. session' = [session EXCEPT !.pc = "token"] /\ now' = now /\ UNCHANGED cached
        /\ session.pc = "ready"
    BY <1>3 DEF Ask, RoundTrip
  <2>2. session'.began = session.began
    BY <2>1 DEF Session
  <2>3. call'.pc # "idle" => call'.asked = now /\ call'.pc = "sign"
    BY <1>3 DEF Ask, RoundTrip, NoCall
  <2> QED
    BY <1>0, <2>1, <2>2, <2>3
<1>4. CASE TokenStep
  <2>1. call.pc = "issued" => call.sent + Lifetime <= call.validUntil
    BY <1>0 DEF TimeInv, CountsAgree
  <2>2. call.pc = "send" => call.asked <= now
    BY <1>0 DEF TimeInv, Paced
  <2> QED
    BY <1>0, <1>4, <2>1, <2>2, SourceTimes
<1>5. CASE Send \/ Accepted
  BY <1>0, <1>2, <1>5 DEF Send, HasAnswer, Accepted, Session, vars
<1>6. CASE StartWait
  BY <1>0, <1>6 DEF StartWait, Session, vars
<1>7. CASE ClientTick
  BY <1>0, <1>7, TickNow DEF ClientTick
<1>8. CASE Client \/ mintSTSToken
  BY <1>1, <1>2, <1>8 DEF Client, mintSTSToken
<1>9. CASE NoRequest \/ Refused \/ WaitTimesOut \/ PrintToken
  BY <1>0, <1>2, <1>9
  DEF NoRequest, HasAnswer, Refused, RefusalCodes, WaitTimesOut, PrintToken
<1>10. CASE UNCHANGED clientVars
  BY <1>0, <1>10 DEF clientVars, vars
<1> QED
  BY <1>3, <1>4, <1>5, <1>6, <1>7, <1>8, <1>9, <1>10 DEF ClientNext

\* The answers of Token().
LEMMA Answers ==
  ASSUME ClientInv, TokenStep, call'.pc = "idle"
  PROVE  /\ answer' \in {"token", "empty token", "old token", "error"}
         /\ answer' = "token" => (Lifetime > Leeway => now' + Leeway < cached'.expiry)
<1> USE Numbers, Bounds
<1>1. CASE RotationFails
  BY <1>1 DEF RotationFails
<1>2. CASE ReceiveEmpty
  BY <1>2 DEF ReceiveEmpty
<1>4. CASE ReceiveToken
  <2>1. /\ cached' = [expiry |-> now + Lifetime, validUntil |-> call.validUntil]
        /\ answer' = "token" /\ now' = now
    BY <1>4 DEF ReceiveToken
  <2> QED
    BY <2>1
<1>5. call \in Call
  BY DEF ClientInv, TimeInv, TypeOK
<1>6. CASE SignJWT /\ ~RotationFails
  BY <1>5, <1>6 DEF SignJWT, Call
<1>7. CASE SendRequest
  BY <1>5, <1>7 DEF SendRequest, Call
<1>8. CASE Issue
  BY <1>5, <1>8 DEF Issue, Call
<1>9. CASE RequestFails /\ ~RotationFails
  BY <1>5, <1>9 DEF RequestFails, Call
<1> QED
  BY <1>1, <1>2, <1>4, <1>6, <1>7, <1>8, <1>9 DEF TokenStep, RefuseRequest

\* A step keeps to where the token in use came from.
LEMMA NextProvenance ==
  ASSUME ClientInv, [ClientNext]_clientVars
  PROVE  Provenance'
<1> USE Numbers, Bounds DEF Provenance
<1>0. Provenance
  BY DEF ClientInv
<1>1. ASSUME NEW helper \in BOOLEAN, Begin(helper) PROVE Provenance'
  BY <1>1 DEF Begin, NoSession
<1>2. ASSUME NEW result \in {"OK", "Internal", "Unauthenticated", "DeadlineExceeded",
                             "printed", "failed"}, Ends(result)
      PROVE  Provenance'
  BY <1>2, EndsType
<1>3. CASE Ask
  <2>1. session' = [session EXCEPT !.pc = "token"] /\ UNCHANGED <<now, cached>>
    BY <1>3 DEF Ask, RoundTrip
  <2>2. session'.pc = "token"
    BY <2>1 DEF Session
  <2>3. CASE Fresh(cached)
    <3>1. answer' = "token" /\ UNCHANGED call
      BY <1>3, <2>3 DEF Ask, RoundTrip
    <3>2. now + Leeway < cached.expiry
      BY <2>3 DEF Fresh
    <3> QED
      BY <2>1, <2>2, <3>1, <3>2
  <2>4. CASE ~Fresh(cached)
    <3>1. call'.pc = "sign"
      BY <1>3, <2>4 DEF Ask, RoundTrip, NoCall
    <3> QED
      BY <2>2, <3>1
  <2> QED
    BY <2>3, <2>4
<1>4. CASE TokenStep
  BY <1>4, Answers, SourceTimes
<1>5. CASE Send
  <2>1. CASE session' = [session EXCEPT !.pc = "sent", !.sent = now]
    <3>1. session'.pc = "sent" /\ session'.sent = now
      BY <2>1 DEF Session
    <3>2. /\ session.pc = "token" /\ call.pc = "idle" /\ answer # "error"
          /\ now' = now /\ cached' = cached /\ answer' = answer
      BY <1>5 DEF Send, HasAnswer, vars
    <3>3. /\ answer \in {"token", "empty token", "old token"}
          /\ answer = "token" => (Lifetime > Leeway => now + Leeway < cached.expiry)
      BY <1>0, <3>2
    <3>4. answer' \in {"token", "empty token", "old token"}
      BY <3>2, <3>3
    <3>6. session'.sent <= now'
      BY <3>1, <3>2
    <3>5. answer' = "token" => (Lifetime > Leeway => session'.sent + Leeway < cached'.expiry)
      BY <3>1, <3>2, <3>3
    <3> QED
      BY <3>1, <3>4, <3>5, <3>6
  <2> QED
    BY <1>2, <1>5, <2>1 DEF Send
<1>6. CASE Accepted
  BY <1>2, <1>0, <1>6 DEF Accepted, Session
<1>7. CASE StartWait
  BY <1>0, <1>7 DEF StartWait, Session
<1>8. CASE ClientTick
  <2>1. /\ now' = now + 1 /\ UNCHANGED <<cached, call, answer, session>>
        /\ session.pc = "token" => call.pc # "idle"
    BY <1>8 DEF ClientTick, Tick
  <2>2. session.sent <= now => session.sent <= now + 1
    OBVIOUS
  <2>3. session' = session /\ cached' = cached /\ call' = call /\ answer' = answer
    BY <2>1
  <2> QED
    BY <1>0, <2>1, <2>2, <2>3
<1>9. CASE Client \/ mintSTSToken
  BY <1>1, <1>2, <1>9 DEF Client, mintSTSToken
<1>10. CASE NoRequest \/ Refused \/ WaitTimesOut \/ PrintToken
  BY <1>2, <1>10 DEF NoRequest, Refused, RefusalCodes, WaitTimesOut, PrintToken
<1>11. CASE UNCHANGED clientVars
  BY <1>0, <1>11 DEF clientVars, vars
<1> QED
  BY <1>3, <1>4, <1>5, <1>6, <1>7, <1>8, <1>9, <1>10, <1>11 DEF ClientNext

-----------------------------------------------------------------------------
\* The invariant is inductive.
LEMMA ClientInductive == ClientSpec => []ClientInv
<1>1. ClientInv /\ [ClientNext]_clientVars => ClientInv'
  BY NextTypes, NextInWait, NextOwnToken, NextProvenance DEF ClientInv
<1> QED
  BY InitClient, <1>1, PTL DEF ClientSpec

\* A wait for a VM is over in time, whatever the STS does.
THEOREM WaitsEnd == ClientSpec => []WaitEndsSoon
<1>1. ClientInv => WaitEndsSoon
  <2> SUFFICES ASSUME ClientInv, session.waiting
               PROVE  now <= session.deadline + Attempts * RequestTimeout
    BY DEF WaitEndsSoon
  <2> USE Numbers, Bounds
  <2> QED
    BY DEF ClientInv, InWait, Session
<1> QED
  BY <1>1, ClientInductive, PTL

\* No request is accepted under a token of an earlier call.
THEOREM TokensOfTheirCall == ClientSpec => []TokenOfThisCall
<1>1. ClientInv => TokenOfThisCall
  BY DEF ClientInv, OwnToken, Provenance, TokenOfThisCall
<1> QED
  BY <1>1, ClientInductive, PTL

\* For every lifetime longer than the leeway: it takes the STS, or delays longer
\* than the leeway, to make the management API refuse a request.
THEOREM RefusedOnlyLate ==
  ASSUME Lifetime > Leeway
  PROVE  ClientSpec => []RefusedOnlyIfLate
<1>1. ASSUME ClientInv PROVE RefusedOnlyIfLate
  <2> SUFFICES ASSUME session.pc = "sent", ~Valid(cached), answer = "token"
               PROVE  (cached.expiry - cached.validUntil) + (now - session.sent) > Leeway
    BY <1>1 DEF RefusedOnlyIfLate, ClientInv, Provenance
  <2>1. session.sent + Leeway < cached.expiry /\ ~(now < cached.validUntil)
    BY <1>1 DEF ClientInv, Provenance, Valid
  <2>2. /\ now \in Nat /\ Leeway \in Nat /\ session.sent \in Nat
        /\ cached.expiry \in Nat /\ cached.validUntil \in Nat
    BY <1>1, Numbers, Bounds
  <2> QED
    BY <2>1, <2>2
<1>2. ClientInv => RefusedOnlyIfLate
  BY <1>1
<1> QED
  BY <1>2, ClientInductive, PTL
-----------------------------------------------------------------------------
(* The token helper.                                                       *)

\* The helper makes one Token() call on an empty cache, and prints at once.
HelperInv ==
  session.helper =>
    /\ session.pc \in {"ready", "token"} /\ session.result = "None"
    /\ session.pc = "ready" \/ call.pc # "idle" => cached = NoToken
    /\ HasAnswer /\ answer = "token" =>
         now + Lifetime <= cached.validUntil + RequestTimeout

\* The answer of a Token() call that had no token: a new one, less than one
\* time-out of a request old.
LEMMA FirstToken ==
  ASSUME ClientInv, TokenStep, cached = NoToken, call'.pc = "idle"
  PROVE  answer' = "token" =>
           now' + Lifetime <= cached'.validUntil + RequestTimeout
<1> USE Numbers, Bounds
<1>1. call \in Call /\ Paced /\ CountsAgree
  BY DEF ClientInv, TimeInv, TypeOK
<1>2. CASE RotationFails
  BY <1>2 DEF RotationFails
<1>3. CASE ReceiveToken
  <2>1. /\ cached' = [expiry |-> now + Lifetime, validUntil |-> call.validUntil]
        /\ now' = now /\ call.pc = "issued"
    BY <1>3 DEF ReceiveToken
  <2>2. call.sent + Lifetime <= call.validUntil /\ now <= call.sent + RequestTimeout
    BY <1>1, <2>1 DEF Paced, CountsAgree
  <2> QED
    BY <2>1, <2>2
<1>4. CASE SignJWT /\ ~RotationFails
  BY <1>1, <1>4 DEF SignJWT, Call
<1>5. CASE SendRequest
  BY <1>1, <1>5 DEF SendRequest, Call
<1>6. CASE Issue
  BY <1>1, <1>6 DEF Issue, Call
<1>7. CASE RequestFails /\ ~RotationFails
  BY <1>1, <1>7 DEF RequestFails, Call
<1>8. CASE ReceiveEmpty
  BY <1>8 DEF ReceiveEmpty
<1> QED
  BY <1>2, <1>3, <1>4, <1>5, <1>6, <1>7, <1>8 DEF TokenStep, RefuseRequest

\* As long as Token() works, the cache stays as it was.
LEMMA StillEmpty ==
  ASSUME ClientInv, TokenStep, call'.pc # "idle"
  PROVE  UNCHANGED cached
<1>1. CASE RotationFails
  BY <1>1 DEF RotationFails
<1>2. ~ReceiveToken /\ ~ReceiveEmpty
  <2>1. NoCall.pc = "idle"
    BY DEF NoCall
  <2>2. call' # NoCall
    BY <2>1
  <2> QED
    BY <2>2 DEF ReceiveToken, ReceiveEmpty
<1>3. CASE SignJWT \/ SendRequest \/ Issue \/ RequestFails \/ RefuseRequest
  BY <1>1, <1>3 DEF SignJWT, SendRequest, Issue, RefuseRequest, RequestFails
<1> QED
  BY <1>2, <1>3 DEF TokenStep

\* Every step keeps to the helper's one call.
LEMMA NextHelper ==
  ASSUME ClientInv, HelperInv, [ClientNext]_clientVars
  PROVE  HelperInv'
<1> USE DEF HelperInv
<1>1. ASSUME NEW helper \in BOOLEAN, Begin(helper), session.pc = "none"
      PROVE  HelperInv'
  <2>1. /\ session'.pc = "ready" /\ session'.result = "None" /\ cached' = NoToken
        /\ ~HasAnswer'
    BY <1>1 DEF Begin, NoSession, NewCache, HasAnswer
  <2> QED
    BY <2>1
<1>2. ASSUME NEW result, Ends(result) PROVE HelperInv'
  BY <1>2 DEF Ends, NoSession
<1>3. CASE Ask
  <2>1. session' = [session EXCEPT !.pc = "token"] /\ UNCHANGED cached
        /\ session.pc = "ready" /\ RoundTrip /\ session \in Session
    BY <1>3, Numbers DEF Ask, RoundTrip
  <2>2. session'.pc = "token" /\ session'.helper = session.helper
        /\ session'.result = session.result
    BY <2>1 DEF Session
  <2>3. cached = NoToken => ~Fresh(cached)
    BY Numbers, Bounds DEF NoToken, Fresh
  <2>4. cached = NoToken => call'.pc = "sign"
    BY <2>1, <2>3 DEF RoundTrip, NoCall
  <2> QED
    BY <2>1, <2>2, <2>4 DEF HasAnswer
<1>4. CASE TokenStep
  <2>1. UNCHANGED session /\ session.pc = "token"
    BY <1>4, SourceTimes
  <2>2. call.pc # "idle"
    BY <1>4 DEF TokenStep, SignJWT, SendRequest, Issue, ReceiveToken, ReceiveEmpty,
      RefuseRequest, RequestFails
  <2>3. CASE call'.pc = "idle"
    BY <1>4, <2>1, <2>2, <2>3, FirstToken DEF HasAnswer
  <2>4. CASE call'.pc # "idle"
    BY <1>4, <2>1, <2>2, <2>4, StillEmpty DEF HasAnswer
  <2> QED
    BY <2>3, <2>4
<1>5. CASE Send \/ StartWait
  <2>1. CASE ~session.helper /\ session' \in {[session EXCEPT !.pc = "sent", !.sent = now],
              [session EXCEPT !.waiting = TRUE, !.deadline = now + WaitTimeout]}
    BY <2>1, Numbers DEF Session
  <2> QED
    BY <1>2, <1>5, <2>1 DEF Send, StartWait
<1>6. CASE Accepted
  <2>1. CASE session' = [session EXCEPT !.pc = "ready", !.sent = 0]
    BY <1>6, <2>1, Numbers DEF Accepted, Session
  <2> QED
    BY <1>2, <1>6, <2>1 DEF Accepted
<1>7. CASE ClientTick
  BY <1>7, TickNow DEF ClientTick, HasAnswer, Tick
<1>8. CASE Client \/ mintSTSToken
  BY <1>1, <1>2, <1>8 DEF Client, mintSTSToken
<1>9. CASE NoRequest \/ Refused \/ WaitTimesOut \/ PrintToken
  BY <1>2, <1>9 DEF NoRequest, Refused, WaitTimesOut, PrintToken
<1>10. CASE UNCHANGED clientVars
  BY <1>10 DEF clientVars, vars, HasAnswer
<1> QED
  BY <1>3, <1>4, <1>5, <1>6, <1>7, <1>8, <1>9, <1>10 DEF ClientNext

\* Only PrintToken ends a run of the helper with a token.
LEMMA PrintStep ==
  ASSUME ClientInv, HelperInv, [ClientNext]_clientVars
  PROVE  [session.helper /\ session'.result = "printed" /\ answer = "token" =>
            now + Lifetime <= cached.validUntil + RequestTimeout]_clientVars
<1> SUFFICES ASSUME ClientNext, session.helper, session'.result = "printed",
                    answer = "token"
             PROVE  now + Lifetime <= cached.validUntil + RequestTimeout
  OBVIOUS
<1>1. session.pc \in {"ready", "token"} /\ session.result = "None"
      /\ session \in Session
  BY Numbers DEF HelperInv
<1>2. ASSUME NEW result, Ends(result) PROVE result = "printed"
  BY <1>2 DEF Ends, NoSession
<1>3. CASE PrintToken
  BY <1>2, <1>3 DEF PrintToken, HelperInv
<1>4. ~(Client \/ mintSTSToken \/ Accepted \/ Refused \/ NoRequest \/ Send \/ StartWait)
  BY <1>1 DEF Client, mintSTSToken, Accepted, Refused, NoRequest, Send, StartWait
<1>5. CASE Ask \/ TokenStep \/ ClientTick
  BY <1>1, <1>5 DEF Ask, TokenStep, ClientTick, Session
<1>6. CASE WaitTimesOut
  BY <1>2, <1>6 DEF WaitTimesOut
<1> QED
  BY <1>3, <1>4, <1>5, <1>6 DEF ClientNext

\* Types: the call, the cache and the session of every client are what they are
\* declared to be, for every bound on the clock.
THEOREM ClientTypeCorrect == ClientSpec => []ClientTypeOK
<1>1. ClientInv => ClientTypeOK
  BY DEF ClientInv
<1> QED
  BY <1>1, ClientInductive, PTL

\* A token the helper prints is good for a lifetime less one time-out, for every
\* lifetime and time-out.
THEOREM PrintedTokensLast == ClientSpec => PrintedTokenLasts
<1>1. ClientInit => HelperInv
  BY DEF ClientInit, NoSession, HelperInv
<1>2. ClientInv /\ HelperInv /\ [ClientNext]_clientVars => HelperInv'
  BY NextHelper
<1>3. ClientInv /\ HelperInv /\ [ClientNext]_clientVars =>
        [session.helper /\ session'.result = "printed" /\ answer = "token" =>
           now + Lifetime <= cached.validUntil + RequestTimeout]_clientVars
  BY PrintStep
<1> QED
  BY <1>1, <1>2, <1>3, ClientInductive, PTL DEF ClientSpec, PrintedTokenLasts
=============================================================================
