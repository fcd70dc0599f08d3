-------------------------- MODULE RedemptionProofs --------------------------
(***************************************************************************)
(* One-time redemption, proved for any number of tokens, browsers and      *)
(* requests, any lifetimes and every kind of failure.                      *)
(***************************************************************************)
EXTENDS Redemption, TLAPS

Fresh(r) == guard[r] \in {"verified", "validated"}

\* What a redemption leaves behind: the mark is set for UsedTTL from a moment at
\* which the token had been signed.
MarkInv == \A j \in Token : /\ issued[j] <= now
                            /\ redeemed[j] > 0 => /\ issued[j] # 0
                                                  /\ issued[j] + UsedTTL <= used[j]

\* A request between its check and its SETNX: the check was good, and recent.
FreshInv == \A r \in Request : Fresh(r) => /\ issued[TokenOf[r]] # 0
                                           /\ since[r] < issued[TokenOf[r]] + JwtTTL
                                           /\ now - since[r] <= MaxDelay

\* The guard's variables keep their domains whatever requests, tokens and
\* failures there are.
LEMMA TypeStep == RedemptionTypeOK /\ [RedemptionNext]_redemptionVars => RedemptionTypeOK'
<1> SUFFICES ASSUME RedemptionTypeOK, [RedemptionNext]_redemptionVars
             PROVE  RedemptionTypeOK'
  OBVIOUS
<1> USE RedemptionAssumption DEF RedemptionTypeOK
<1>1. CASE UNCHANGED redemptionVars
  BY <1>1 DEF redemptionVars
<1>2. CASE Pass
  BY <1>2 DEF Pass
<1>3. ASSUME NEW j \in Token, IssueAdmission(j) \/ Forget(j)
      PROVE  RedemptionTypeOK'
  BY <1>3 DEF IssueAdmission, Forget
<1>4. ASSUME NEW r \in Request, FastPath(r) \/ Verify(r) \/ ValidateAdmission(r)
      PROVE  RedemptionTypeOK'
  BY <1>4 DEF FastPath, Verify, ValidateAdmission
<1>5. ASSUME NEW r \in Request, SetNX(r)
      PROVE  RedemptionTypeOK'
  <2>1. Marked(TokenOf[r]) \in [Token -> Nat]
    BY DEF Marked
  <2>2. QED
    BY <1>5, <2>1 DEF SetNX
<1>6. ASSUME NEW r \in Request, Respond(r) \/ Again(r)
      PROVE  RedemptionTypeOK'
  BY <1>6 DEF Respond, Again, SessionExpiry
<1>7. QED
  BY <1>1, <1>2, <1>3, <1>4, <1>5, <1>6 DEF RedemptionNext

\* Type correctness of the redemption path (QueueGuard, ValidateAdmission).
THEOREM RedemptionTypeCorrect == RedemptionSpec => []RedemptionTypeOK
<1>1. RedemptionInit => RedemptionTypeOK
  BY RedemptionAssumption DEF RedemptionInit, RedemptionTypeOK
<1>2. QED
  BY <1>1, TypeStep, PTL DEF RedemptionSpec

\* A redemption is marked for UsedTTL counted from no earlier than the signing.
LEMMA MarkStep == RedemptionTypeOK /\ MarkInv /\ FreshInv /\ [RedemptionNext]_redemptionVars
                    => MarkInv'
<1> SUFFICES ASSUME RedemptionTypeOK, MarkInv, FreshInv,
                    [RedemptionNext]_redemptionVars
             PROVE  MarkInv'
  OBVIOUS
<1> USE RedemptionAssumption DEF RedemptionTypeOK, MarkInv
<1>1. CASE UNCHANGED redemptionVars
  BY <1>1 DEF redemptionVars
<1>2. CASE Pass
  BY <1>2 DEF Pass
<1>3. ASSUME NEW j \in Token, IssueAdmission(j) \/ Forget(j)
      PROVE  MarkInv'
  BY <1>3 DEF IssueAdmission, Forget
<1>4. ASSUME NEW r \in Request,
             FastPath(r) \/ Verify(r) \/ ValidateAdmission(r) \/ Respond(r) \/ Again(r)
      PROVE  MarkInv'
  BY <1>4 DEF FastPath, Verify, ValidateAdmission, Respond, Again
<1>5. ASSUME NEW r \in Request, SetNX(r)
      PROVE  MarkInv'
  <2> DEFINE j == TokenOf[r]
  <2>1. issued[j] # 0
    BY <1>5 DEF SetNX, FreshInv, Fresh
  <2>2. /\ Marked(j) \in [Token -> Nat]
        /\ \A k \in Token : used[k] <= Marked(j)[k]
        /\ Unused(j) => Marked(j)[j] = now + UsedTTL
    BY DEF Marked, Unused
  <2>3. /\ issued' = issued /\ now' = now
        /\ \A k \in Token : used[k] <= used'[k]
        /\ \/ redeemed' = redeemed
           \/ /\ redeemed' = [redeemed EXCEPT ![j] = @ + 1]
              /\ used'[j] = now + UsedTTL
    BY <1>5, <2>2 DEF SetNX
  <2>4. used' \in [Token -> Nat]
    BY <1>5, <2>2 DEF SetNX
  <2>5. QED
    BY <2>1, <2>3, <2>4
<1>6. QED
  BY <1>1, <1>2, <1>3, <1>4, <1>5 DEF RedemptionNext

\* The check a request passed stays good and recent until its SETNX.
LEMMA FreshStep == RedemptionTypeOK /\ FreshInv /\ [RedemptionNext]_redemptionVars
                     => FreshInv'
<1> SUFFICES ASSUME RedemptionTypeOK, FreshInv, [RedemptionNext]_redemptionVars
             PROVE  FreshInv'
  OBVIOUS
<1> USE RedemptionAssumption DEF RedemptionTypeOK, FreshInv, Fresh
<1>1. CASE UNCHANGED redemptionVars
  BY <1>1 DEF redemptionVars
<1>2. CASE Pass
  BY <1>2 DEF Pass, InGuard
<1>3. ASSUME NEW j \in Token, IssueAdmission(j) \/ Forget(j)
      PROVE  FreshInv'
  BY <1>3 DEF IssueAdmission, Forget
<1>4. ASSUME NEW r \in Request, Verify(r) \/ ValidateAdmission(r)
      PROVE  FreshInv'
  BY <1>4 DEF Verify, ValidateAdmission, ValidJWT
<1>5. ASSUME NEW r \in Request, FastPath(r) \/ SetNX(r) \/ Respond(r) \/ Again(r)
      PROVE  FreshInv'
  BY <1>5 DEF FastPath, SetNX, Respond, Again
<1>6. QED
  BY <1>1, <1>2, <1>3, <1>4, <1>5 DEF RedemptionNext

\* The invariant from which both theorems below follow.
RedemptionInv == RedemptionTypeOK /\ MarkInv /\ FreshInv

LEMMA RedemptionInvariant == RedemptionSpec => []RedemptionInv
<1>1. RedemptionInit => RedemptionInv
  BY RedemptionAssumption
  DEF RedemptionInit, RedemptionInv, RedemptionTypeOK, MarkInv, FreshInv, Fresh
<1>2. RedemptionInv /\ [RedemptionNext]_redemptionVars => RedemptionInv'
  BY TypeStep, MarkStep, FreshStep DEF RedemptionInv
<1>3. QED
  BY <1>1, <1>2, PTL DEF RedemptionSpec

\* When the mark's TTL is at least the token's, as AdmissionUsedTTL and
\* AdmissionJWTTTL are, a redeemed token that ValidateJWT accepts is marked.
THEOREM MarkOutlivesTokenCorrect ==
  ASSUME JwtTTL <= UsedTTL
  PROVE  RedemptionSpec => []MarkOutlivesToken
<1>1. RedemptionInv => MarkOutlivesToken
  BY RedemptionAssumption
  DEF RedemptionInv, RedemptionTypeOK, MarkInv, MarkOutlivesToken, ValidJWT, Unused
<1>2. QED
  BY <1>1, RedemptionInvariant, PTL

\* What a second exchange leaves behind: it came after the first mark had ended,
\* so the token was no longer valid, and set a mark of its own.
SecondInv == \A j \in Token :
  /\ redeemed[j] <= 2
  /\ redeemed[j] = 2 => /\ issued[j] + UsedTTL <= now
                        /\ issued[j] + UsedTTL + UsedTTL <= used[j]

\* A request is never slow enough to come after the second mark as well.
LEMMA SecondStep ==
  ASSUME JwtTTL <= UsedTTL, MaxDelay <= UsedTTL
  PROVE  RedemptionInv /\ SecondInv /\ [RedemptionNext]_redemptionVars => SecondInv'
<1> SUFFICES ASSUME RedemptionInv, SecondInv, [RedemptionNext]_redemptionVars
             PROVE  SecondInv'
  OBVIOUS
<1> USE RedemptionAssumption DEF RedemptionInv, RedemptionTypeOK, SecondInv
<1>1. CASE UNCHANGED redemptionVars
  BY <1>1 DEF redemptionVars
<1>2. CASE Pass
  BY <1>2 DEF Pass
<1>3. ASSUME NEW j \in Token, IssueAdmission(j) \/ Forget(j)
      PROVE  SecondInv'
  <2>1. redeemed[j] > 0 => issued[j] # 0
    BY DEF MarkInv
  <2>2. QED
    BY <1>3, <2>1 DEF IssueAdmission, Forget
<1>4. ASSUME NEW r \in Request,
             FastPath(r) \/ Verify(r) \/ ValidateAdmission(r) \/ Respond(r) \/ Again(r)
      PROVE  SecondInv'
  BY <1>4 DEF FastPath, Verify, ValidateAdmission, Respond, Again
<1>5. ASSUME NEW r \in Request, SetNX(r)
      PROVE  SecondInv'
  <2> DEFINE j == TokenOf[r]
  <2>1. now < issued[j] + JwtTTL + MaxDelay
    BY <1>5 DEF SetNX, FreshInv, Fresh
  <2>2. Unused(j) => redeemed[j] <= 1
    BY <2>1 DEF Unused
  <2>3. Unused(j) /\ redeemed[j] = 1 => issued[j] + UsedTTL <= now
    BY DEF Unused, MarkInv
  <2>4. /\ Marked(j) \in [Token -> Nat]
        /\ \A k \in Token : used[k] <= Marked(j)[k]
        /\ Unused(j) => Marked(j)[j] = now + UsedTTL
    BY DEF Marked, Unused
  <2>5. /\ issued' = issued /\ now' = now
        /\ \A k \in Token : used[k] <= used'[k]
        /\ \/ redeemed' = redeemed
           \/ /\ Unused(j) /\ redeemed' = [redeemed EXCEPT ![j] = @ + 1]
              /\ used'[j] = now + UsedTTL
    BY <1>5, <2>4 DEF SetNX
  <2>6. used' \in [Token -> Nat]
    BY <1>5, <2>4 DEF SetNX
  <2>7. CASE redeemed' = redeemed
    BY <2>5, <2>6, <2>7
  <2>8. ASSUME Unused(j), redeemed' = [redeemed EXCEPT ![j] = @ + 1], used'[j] = now + UsedTTL
        PROVE  SecondInv'
    <3>1. ASSUME NEW k \in Token, k # j
          PROVE  /\ redeemed'[k] <= 2
                 /\ redeemed'[k] = 2 => /\ issued'[k] + UsedTTL <= now'
                                        /\ issued'[k] + UsedTTL + UsedTTL <= used'[k]
      <4>1. redeemed'[k] = redeemed[k] /\ used[k] <= used'[k]
        BY <2>5, <2>8, <3>1
      <4>2. QED
        BY <2>5, <2>6, <4>1
    <3>2. redeemed'[j] = redeemed[j] + 1 /\ redeemed[j] \in Nat /\ redeemed[j] <= 1
      BY <2>2, <2>8
    <3>3. redeemed[j] = 1 => issued[j] + UsedTTL <= now
      BY <2>3, <2>8
    <3>4. redeemed'[j] = 2 => /\ issued'[j] + UsedTTL <= now'
                              /\ issued'[j] + UsedTTL + UsedTTL <= used'[j]
      BY <2>5, <2>8, <3>2, <3>3
    <3>5. QED
      BY <3>1, <3>2, <3>4
  <2>9. QED
    BY <2>5, <2>7, <2>8
<1>6. QED
  BY <1>1, <1>2, <1>3, <1>4, <1>5 DEF RedemptionNext

\* A token is exchanged once while it is valid and twice at most, for any number of
\* requests and browsers and every failure.  Both assumptions hold of the code: the
\* lifetimes are equal, and a request is in the guard for seconds, a mark lives for
\* minutes (QueueGuard).
THEOREM OnceWhileValidCorrect ==
  ASSUME JwtTTL <= UsedTTL, MaxDelay <= UsedTTL
  PROVE  RedemptionSpec => []OnceWhileValid
<1>1. RedemptionInit => SecondInv
  <2> SUFFICES ASSUME RedemptionInit, NEW j \in Token
               PROVE  /\ redeemed[j] <= 2
                      /\ redeemed[j] = 2 => /\ issued[j] + UsedTTL <= now
                                            /\ issued[j] + UsedTTL + UsedTTL <= used[j]
    BY DEF SecondInv
  <2>1. redeemed[j] = 0
    BY DEF RedemptionInit
  <2>2. QED
    BY <2>1
<1>2. RedemptionInv /\ SecondInv /\ [RedemptionNext]_redemptionVars => SecondInv'
  BY SecondStep
<1>3. RedemptionInv /\ SecondInv => OnceWhileValid
  <2> SUFFICES ASSUME RedemptionInv, SecondInv, NEW j \in Token
               PROVE  redeemed[j] <= 2 /\ (ValidJWT(j) => redeemed[j] <= 1)
    BY DEF OnceWhileValid
  <2>1. /\ now \in Nat /\ issued[j] \in Nat /\ redeemed[j] \in Nat
        /\ JwtTTL \in Nat /\ UsedTTL \in Nat
    BY RedemptionAssumption DEF RedemptionInv, RedemptionTypeOK
  <2>2. redeemed[j] <= 2 /\ (redeemed[j] = 2 => issued[j] + UsedTTL <= now)
    BY DEF SecondInv
  <2>3. QED
    BY <2>1, <2>2 DEF ValidJWT
<1>4. QED
  BY <1>1, <1>2, <1>3, RedemptionInvariant, PTL DEF RedemptionSpec
==============================================================================
