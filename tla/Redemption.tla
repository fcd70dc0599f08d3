----------------------------- MODULE Redemption -----------------------------
(***************************************************************************)
(* How an admission token is turned into a session at the origin: the      *)
(* QueueGuard middleware, the queue server's ValidateAdmission endpoint it *)
(* calls, and the one-time mark token:{jti} in the origin's Redis.         *)
(*                                                                         *)
(* Requests run concurrently: tabs, reloads and double clicks of one       *)
(* browser, which share its session cookie, and browsers that share an     *)
(* address with the token in it.  Time passes between the steps of a       *)
(* request, but no request is in the guard for more than MaxDelay.         *)
(***************************************************************************)
EXTENDS Integers

CONSTANTS Token,       \* admission JWTs
          Browser,     \* browsers, each with its cookies
          Request,     \* requests to the origin that may be open at a time
          TokenOf,     \* the token a request carries in q_admission
          BrowserOf,   \* the browser that sends it
          JwtTTL,      \* AdmissionJWTTTL
          UsedTTL,     \* AdmissionUsedTTL
          SessionTTL,  \* SessionJWTTTL, which is also QSessionCookieMaxAge
          MaxDelay,    \* bound on the time from ValidateJWT to the response
          MaxClock,    \* bound on the clock
          Failures     \* the kinds of failure that may happen

FailureKind == {"call_error",   \* the call of ValidateAdmission fails or times out
                "redis_error",  \* SETNX returns an error, applied or not
                "disconnect",   \* the response does not reach the browser
                "forget"}       \* the ticket's hash reaches its TTL

ASSUME RedemptionAssumption ==
  /\ TokenOf \in [Request -> Token] /\ BrowserOf \in [Request -> Browser]
  /\ JwtTTL \in Nat \ {0} /\ UsedTTL \in Nat \ {0} /\ SessionTTL \in Nat \ {0}
  /\ MaxDelay \in Nat /\ MaxClock \in Nat
  /\ Failures \subseteq FailureKind

VARIABLES now,       \* the clock
          issued,    \* when the scheduler signed a token, 0 if it has not
          known,     \* tokens whose ticket hash still has its eventId
          used,      \* token:{jti}: when the key expires, 0 if never set
          jar,       \* a browser's q_session: when it expires, 0 if none
          guard,     \* how far a request has come in QueueGuard
          since,     \* when the guard verified it, then when it marked the token
          redeemed   \* history: how often a token was exchanged for a session

redemptionVars == <<now, issued, known, used, jar, guard, since, redeemed>>

InGuard(r) == guard[r] \in {"verified", "validated", "redeemed"}

RedemptionInit ==
  /\ now = 1
  /\ issued = [j \in Token |-> 0] /\ known = Token
  /\ used = [j \in Token |-> 0] /\ jar = [b \in Browser |-> 0]
  /\ guard = [r \in Request |-> "idle"] /\ since = [r \in Request |-> 0]
  /\ redeemed = [j \in Token |-> 0]

\* Time passes, also while a request is in the guard: the validation call may take
\* 2 seconds, and SETNX follows it.
Pass == /\ now < MaxClock
        /\ \A r \in Request : InGuard(r) => now - since[r] < MaxDelay
        /\ now' = now + 1
        /\ UNCHANGED <<issued, known, used, jar, guard, since, redeemed>>

\* IssueAdmission, called by the scheduler.
IssueAdmission(j) ==
  /\ issued[j] = 0
  /\ issued' = [issued EXCEPT ![j] = now]
  /\ UNCHANGED <<now, known, used, jar, guard, since, redeemed>>

\* TicketKeyTTL passes: the queue's Redis drops the ticket's hash.
Forget(j) ==
  /\ "forget" \in Failures /\ j \in known
  /\ known' = known \ {j}
  /\ UNCHANGED <<now, issued, used, jar, guard, since, redeemed>>

\* ValidateJWT accepts the token: it is signed and not expired.
ValidJWT(j) == issued[j] # 0 /\ now < issued[j] + JwtTTL

\* A valid q_session passes without a look at the admission token.
FastPath(r) ==
  /\ guard[r] = "idle" /\ now < jar[BrowserOf[r]]
  /\ guard' = [guard EXCEPT ![r] = "passed"]
  /\ UNCHANGED <<now, issued, known, used, jar, since, redeemed>>

\* Without a session, ValidateJWT decides (401 if it does not accept).
Verify(r) ==
  LET j == TokenOf[r] IN
  /\ guard[r] = "idle" /\ issued[j] # 0 /\ ~(now < jar[BrowserOf[r]])
  /\ guard' = [guard EXCEPT ![r] = IF ValidJWT(j) THEN "verified" ELSE "refused"]
  /\ since' = [since EXCEPT ![r] = IF ValidJWT(j) THEN now ELSE @]
  /\ UNCHANGED <<now, issued, known, used, jar, redeemed>>

\* The POST to ValidateAdmission, which checks the token again and compares its
\* event with the ticket's hash.  Anything but a 200 in time is a 403.
ValidateAdmission(r) ==
  LET j == TokenOf[r] IN
  /\ guard[r] = "verified"
  /\ \/ guard' = [guard EXCEPT ![r] = IF ValidJWT(j) /\ j \in known
                                      THEN "validated" ELSE "refused"]
     \/ "call_error" \in Failures /\ guard' = [guard EXCEPT ![r] = "refused"]
  /\ UNCHANGED <<now, issued, known, used, jar, since, redeemed>>

\* A mutant: the result of SETNX is not looked at.
NeverMarked(j) == TRUE

\* The key token:{jti} is absent: never set, or expired.
Unused(j) == ~(now < used[j])

\* A mutant: the mark lives for one unit of time.
ShortMark(j) == [used EXCEPT ![j] = IF Unused(j) THEN now + 1 ELSE @]

\* The mark after SETNX with TTL.
Marked(j) == [used EXCEPT ![j] = IF Unused(j) THEN now + UsedTTL ELSE @]

\* SETNX token:{jti}.  The winner's session is signed; everybody else is refused.
SetNX(r) ==
  LET j == TokenOf[r] IN
  /\ guard[r] = "validated"
  /\ \/ /\ used' = Marked(j)
        /\ guard' = [guard EXCEPT ![r] = IF Unused(j) THEN "redeemed" ELSE "refused"]
        /\ since' = [since EXCEPT ![r] = IF Unused(j) THEN now ELSE @]
        /\ redeemed' = [redeemed EXCEPT ![j] = IF Unused(j) THEN @ + 1 ELSE @]
     \/ /\ "redis_error" \in Failures
        /\ used' \in {used, Marked(j)}
        /\ guard' = [guard EXCEPT ![r] = "refused"]
        /\ UNCHANGED <<since, redeemed>>
  /\ UNCHANGED <<now, issued, known, jar>>

\* A mutant: the lifetime is subtracted.
BornExpired(r) == since[r] - SessionTTL

\* When the session signed by IssueSession, and its cookie, expire.
SessionExpiry(r) == since[r] + SessionTTL

\* The response sets q_session in the browser, if it arrives.
Respond(r) ==
  /\ guard[r] = "redeemed"
  /\ \/ /\ jar' = [jar EXCEPT ![BrowserOf[r]] = SessionExpiry(r)]
        /\ guard' = [guard EXCEPT ![r] = "passed"]
     \/ /\ "disconnect" \in Failures
        /\ guard' = [guard EXCEPT ![r] = "lost"]
        /\ UNCHANGED jar
  /\ UNCHANGED <<now, issued, known, used, since, redeemed>>

\* The browser tries again: a reload of the same address.
Again(r) ==
  /\ guard[r] \in {"passed", "refused", "lost"}
  /\ guard' = [guard EXCEPT ![r] = "idle"]
  /\ UNCHANGED <<now, issued, known, used, jar, since, redeemed>>

RedemptionNext ==
  \/ Pass
  \/ \E j \in Token : IssueAdmission(j) \/ Forget(j)
  \/ \E r \in Request : \/ FastPath(r) \/ Verify(r) \/ ValidateAdmission(r)
                        \/ SetNX(r) \/ Respond(r) \/ Again(r)

RedemptionSpec == RedemptionInit /\ [][RedemptionNext]_redemptionVars
------------------------------------------------------------------------------
\* Every variable stays in its domain.
RedemptionTypeOK ==
  /\ now \in Nat /\ known \subseteq Token
  /\ issued \in [Token -> Nat] /\ used \in [Token -> Nat]
  /\ jar \in [Browser -> Nat] /\ redeemed \in [Token -> Nat]
  /\ guard \in [Request -> {"idle", "verified", "validated", "redeemed", "passed",
                            "refused", "lost"}]
  /\ since \in [Request -> Nat]

\* What TOKEN-04 and the comment on SETNX in QueueGuard promise: a token is
\* exchanged for one session, whatever requests race, fail and are repeated.
RedeemedOnce == \A j \in Token : redeemed[j] <= 1

\* What the code keeps of it, also with requests that are slow in the guard: a
\* token is exchanged once while it is valid, and a request that was verified
\* before its exp and reaches SETNX after the mark has ended adds one exchange
\* and no more (QueueGuard's ValidateJWT, validation call and SETNX).
OnceWhileValid == \A j \in Token : /\ ValidJWT(j) => redeemed[j] <= 1
                                   /\ redeemed[j] <= 2

\* The mark outlives the token it guards: as long as ValidateJWT accepts a
\* redeemed token, token:{jti} is there (AdmissionUsedTTL, AdmissionJWTTTL).
MarkOutlivesToken == \A j \in Token : redeemed[j] > 0 /\ ValidJWT(j) => ~Unused(j)
==============================================================================
