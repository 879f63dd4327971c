------------------------------- MODULE GDCClient -------------------------------
(***************************************************************************)
(* The users of the token source, one after the other: a driver call, which*)
(* makes a client from its Secret and class (pkg/spi, gdc/pkg/client) and  *)
(* sends requests to the management API, and the token helper of the CI    *)
(* (integration/cmd/token-helper), which prints one token.                 *)
(*                                                                         *)
(* Every request takes its token from the client's own cache.  The wait for*)
(* a VM is bounded by its context, but Token() does not look at it.  A     *)
(* request that is refused as unauthorized ends the call: the transport    *)
(* (client-go) does not throw the token away.                              *)
(*                                                                         *)
(* A request to the management API takes time, from when it has its token  *)
(* to when the server looks at it.  The requests of the wait are bound by  *)
(* its context, and nothing bounds the others: the client sets no time-out.*)
(***************************************************************************)
EXTENDS STSTokenSource

CONSTANT WaitTimeout   \* VMRunningTimeoutSeconds

ASSUME WaitTimeoutAssumption == WaitTimeout \in Nat \ {0}

VARIABLES
  serviceAccount,  \* the JSON of the service account
  caDecodes,       \* the CA certificate can be read
  session          \* the driver call or the run of the helper

clientVars == <<vars, serviceAccount, caDecodes, session>>
config == <<serviceAccount, caDecodes>>

\* waiting, deadline: the call polls its VM, until when.  sent: when the request
\* that is on its way left.
Session == [pc : {"none", "ready", "token", "sent"}, helper : BOOLEAN,
            began : Nat, waiting : BOOLEAN, deadline : Nat, sent : Nat,
            result : {"None", "OK", "Internal", "Unauthenticated",
                      "DeadlineExceeded", "printed", "failed"}]
NoSession == [pc |-> "none", helper |-> FALSE, began |-> 0, waiting |-> FALSE,
              deadline |-> 0, sent |-> 0, result |-> "None"]

ClientTypeOK ==
  /\ TypeOK
  /\ serviceAccount \in {"missing", "malformed", "sound"}
  /\ caDecodes \in BOOLEAN
  /\ session \in Session

ClientInit ==
  /\ Init
  /\ serviceAccount \in {"missing", "malformed", "sound"}
  /\ caDecodes \in BOOLEAN
  /\ session = NoSession

Ends(result) == session' = [NoSession EXCEPT !.result = result]

-----------------------------------------------------------------------------
(* Making a client.                                                        *)

\* Mutant: one cache for all calls.
SharedCache == cached

\* NewCachedSTSTokenSource.
NewCache == NoToken

\* There is a service account, it parses, and the CA data can be read; whether
\* the private key can be used shows when the first token is asked for.
Usable == serviceAccount = "sound" /\ caDecodes

Begin(helper) ==
  /\ session' = [NoSession EXCEPT !.pc = "ready", !.helper = helper, !.began = now]
  /\ cached' = NewCache
  /\ answer' = "none"
  /\ UNCHANGED <<now, keyParses, call, config>>

\* PluginSPIImpl.Client; a driver call ends with its error.
Client ==
  /\ session.pc = "none"
  /\ \/ Usable /\ Begin(FALSE)
     \/ ~Usable /\ Ends("Internal") /\ UNCHANGED <<vars, config>>

mintSTSToken ==
  /\ session.pc = "none"
  /\ \/ Usable /\ Begin(TRUE)
     \/ ~Usable /\ Ends("failed") /\ UNCHANGED <<vars, config>>

-----------------------------------------------------------------------------
(* Requests.                                                               *)

\* Mutant: a poll is sent whatever the time.
AlwaysInTime == TRUE

\* The context of the wait is not over.
InTime == session.waiting => now < session.deadline

\* A request, or the helper, asks for a token.
Ask ==
  /\ session.pc = "ready" /\ InTime
  /\ RoundTrip
  /\ session' = [session EXCEPT !.pc = "token"]
  /\ UNCHANGED config

TokenStep ==
  /\ session.pc = "token"
  /\ \/ SignJWT \/ SendRequest \/ Issue \/ ReceiveToken \/ ReceiveEmpty
     \/ RefuseRequest \/ RequestFails
  /\ UNCHANGED <<config, session>>

HasAnswer == session.pc = "token" /\ call.pc = "idle"

\* oauth2.Transport: no token, no request.
NoRequest ==
  /\ HasAnswer /\ ~session.helper /\ answer = "error"
  /\ Ends("Internal")
  /\ UNCHANGED <<vars, config>>

\* The request goes out under the token, unless its context is over by now.
Send ==
  /\ HasAnswer /\ ~session.helper /\ answer # "error"
  /\ \/ InTime /\ session' = [session EXCEPT !.pc = "sent", !.sent = now]
     \/ ~InTime /\ Ends("DeadlineExceeded")
  /\ UNCHANGED <<vars, config>>

Valid(token) == now < token.validUntil

\* wrapError knows a refusal; the wait for the VM and the updates that set owner
\* references do not ask it.
RefusalCodes ==
  {"Internal"} \cup (IF session.waiting THEN {} ELSE {"Unauthenticated"})

\* The call goes on, or this was its last request.
Accepted ==
  /\ session.pc = "sent" /\ Valid(cached)
  /\ session' = [session EXCEPT !.pc = "ready", !.sent = 0] \/ Ends("OK")
  /\ UNCHANGED <<vars, config>>

Refused ==
  /\ session.pc = "sent" /\ ~Valid(cached)
  /\ \E code \in RefusalCodes : Ends(code)
  /\ UNCHANGED <<vars, config>>

\* CreateMachine begins to poll its VM.
StartWait ==
  /\ session.pc = "ready" /\ ~session.helper /\ ~session.waiting /\ cached # NoToken
  /\ session' = [session EXCEPT !.waiting = TRUE, !.deadline = now + WaitTimeout]
  /\ UNCHANGED <<vars, config>>

\* Between two polls, or under a poll that has no answer yet.
WaitTimesOut ==
  /\ session.pc \in {"ready", "sent"} /\ ~InTime
  /\ Ends("DeadlineExceeded")
  /\ UNCHANGED <<vars, config>>

\* The helper prints its token and is done.
PrintToken ==
  /\ HasAnswer /\ session.helper
  /\ Ends(IF answer = "error" THEN "failed" ELSE "printed")
  /\ UNCHANGED <<vars, config>>

\* Time passes between calls, between requests, under them, and in Token().
ClientTick ==
  /\ Tick
  /\ \/ session.pc = "none"
     \/ session.pc \in {"ready", "sent"} /\ ~session.helper /\ InTime
     \/ session.pc = "token" /\ call.pc # "idle"
  /\ UNCHANGED <<config, session>>

ClientNext ==
  \/ Client \/ mintSTSToken \/ Ask \/ TokenStep \/ NoRequest \/ Send
  \/ Accepted \/ Refused \/ StartWait \/ WaitTimesOut \/ PrintToken \/ ClientTick

ClientSpec == ClientInit /\ [][ClientNext]_clientVars

-----------------------------------------------------------------------------
\* A request is refused as unauthorized only if the STS gave no new token, or if
\* the answer that brought the token and the request itself were on their way,
\* together, for longer than the leeway.  Neither the length of a call nor the
\* calls before it wear a token out; a slow request may, for nothing bounds it.
RefusedOnlyIfLate ==
  session.pc = "sent" /\ ~Valid(cached) =>
    \/ answer \in {"old token", "empty token"}
    \/ (cached.expiry - cached.validUntil) + (now - session.sent) > Leeway

\* A call that ends as unauthenticated is retried under a token of its own: no
\* request is accepted under one that was issued to an earlier call.
TokenOfThisCall ==
  session.pc = "sent" /\ Valid(cached) =>
    session.began + Lifetime <= cached.validUntil

\* The wait for a VM outlasts its time-out by no more than one Token() takes,
\* which does not know of the deadline: a poll on its way does.
WaitEndsSoon ==
  session.waiting => now <= session.deadline + Attempts * RequestTimeout

\* What the helper prints, if the STS answered with a token at all, is good for
\* a lifetime, less the time-out of one request, from the moment it is printed:
\* time enough to use it.
PrintedTokenLasts ==
  [][session.helper /\ session'.result = "printed" /\ answer = "token" =>
       now + Lifetime <= cached.validUntil + RequestTimeout]_clientVars
=============================================================================
