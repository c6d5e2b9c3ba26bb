-------------------------- MODULE ApplicationProofs --------------------------
(***************************************************************************)
(* The safety of the shell of the client, for any number of creates, of    *)
(* amounts typed and of pages loaded.                                      *)
(***************************************************************************)
EXTENDS Application, TLAPS

LEMMA TypeInit == Init => TypeOK
<1> SUFFICES ASSUME Init PROVE TypeOK
  OBVIOUS
<1>1. redirectURL \in Requests \cup {""} /\ path \in Requests \cup {"/"}
  BY Zenon DEF Init
<1>2. fiatValue = 0 /\ loads = 0 /\ redirect = FALSE /\ error = FALSE
      /\ call = [r \in Requests |-> "unused"]
  BY Zenon DEF Init
<1>3. fiatValue \in Nat \cup {NaN} /\ loads \in Nat /\ redirect \in BOOLEAN /\ error \in BOOLEAN
      /\ call \in [Requests -> CallStates]
  BY <1>2 DEF CallStates
<1> QED
  BY <1>1, <1>3, Zenon DEF TypeOK

LEMMA TypeStep == TypeOK /\ [Next]_vars => TypeOK'
<1> SUFFICES ASSUME TypeOK, [Next]_vars PROVE TypeOK'
  OBVIOUS
<1>1. ASSUME NEW amount \in Amounts, Type(amount)
      PROVE  TypeOK'
  BY <1>1, ApplicationAssumption DEF TypeOK, Type
<1>2. ASSUME NEW r \in Requests, Submit(r) \/ ServerAnswers(r) \/ CallFails(r)
      PROVE  TypeOK'
  BY <1>2 DEF TypeOK, Submit, ServerAnswers, CallFails, CallStates
<1>3. ASSUME NEW r \in Requests, Deliver(r) \/ SetRedirectURL(r)
      PROVE  TypeOK'
  BY <1>3 DEF TypeOK, Deliver, SetRedirectURL, Redirected, CallStates
<1>4. ASSUME NEW r \in Requests, DeliverError(r)
      PROVE  TypeOK'
  BY <1>4 DEF TypeOK, DeliverError, CallStates
<1>5. ASSUME NEW location \in {"/", path}, Load(location)
      PROVE  TypeOK'
  <2>1. /\ fiatValue' \in Nat \cup {NaN} /\ loads' \in Nat /\ path' \in Requests \cup {"/"}
        /\ call' \in [Requests -> CallStates] /\ redirect' \in BOOLEAN /\ error' \in BOOLEAN
    <3>1. /\ loads' = loads + 1 /\ path' = location /\ fiatValue' = 0
          /\ redirect' = FALSE /\ error' = FALSE
          /\ call' = [r \in Requests |-> IF call[r] = "unused" THEN "unused" ELSE "gone"]
      BY <1>5, Zenon DEF Load
    <3>2. loads \in Nat /\ path \in Requests \cup {"/"}
      BY Zenon DEF TypeOK
    <3>3. fiatValue' \in Nat \cup {NaN} /\ loads' \in Nat
      BY <3>1, <3>2
    <3>4. path' \in Requests \cup {"/"}
      BY <3>1, <3>2
    <3>5. call' \in [Requests -> CallStates]
      BY <3>1 DEF CallStates
    <3>6. redirect' \in BOOLEAN /\ error' \in BOOLEAN
      BY <3>1
    <3> QED
      BY <3>3, <3>4, <3>5, <3>6
  <2>2. redirectURL' \in Requests \cup {""}
    BY <1>5, Zenon DEF Load
  <2> QED
    BY <2>1, <2>2, Zenon DEF TypeOK
<1>6. CASE UNCHANGED vars
  BY <1>6 DEF TypeOK, vars
<1> QED
  BY <1>1, <1>2, <1>3, <1>4, <1>5, <1>6 DEF Next

(***************************************************************************)
(* The shell keeps its types, whatever is typed, answered and loaded       *)
(* (Application/index.jsx:13-20).                                          *)
(***************************************************************************)
THEOREM TypeCorrect == Spec => []TypeOK
BY TypeInit, TypeStep, PTL DEF Spec

-----------------------------------------------------------------------------
\* Only a request that is in the middle of its callback leaves a Redirect without a target.
BlankOrLed == redirect /\ path = "/" /\ ~error => ~Idle

(***************************************************************************)
(* The blank page of a Redirect lasts no longer than the callback, for any *)
(* number of creates and failures (Application/index.jsx:50-51, 78-82).    *)
(***************************************************************************)
THEOREM BlankIsBrief == Spec => []BlankOnlyBetween
<1>1. Init => BlankOrLed
  BY Zenon DEF Init, BlankOrLed
<1>2. TypeOK /\ BlankOrLed /\ [Next]_vars => BlankOrLed'
  <2> SUFFICES ASSUME TypeOK, BlankOrLed, [Next]_vars PROVE BlankOrLed'
    OBVIOUS
  <2>1. ASSUME NEW amount \in Amounts, Type(amount)
        PROVE  BlankOrLed'
    BY <2>1 DEF Type, BlankOrLed, Idle
  <2>2. ASSUME NEW r \in Requests, Submit(r) \/ ServerAnswers(r) \/ CallFails(r)
        PROVE  BlankOrLed'
    <3>1. UNCHANGED <<redirect, path, error>>
      BY <2>2, Zenon DEF Submit, ServerAnswers, CallFails
    <3>2. \A q \in Requests : call[q] = "redirecting" => call'[q] = "redirecting"
      BY <2>2 DEF Submit, ServerAnswers, CallFails, TypeOK
    <3> QED
      BY <3>1, <3>2 DEF BlankOrLed, Idle
  <2>3. ASSUME NEW r \in Requests, Deliver(r)
        PROVE  BlankOrLed'
    <3>1. call'[r] = "redirecting"
      BY <2>3 DEF Deliver, TypeOK
    <3> QED
      BY <3>1 DEF BlankOrLed, Idle
  <2>4. ASSUME NEW r \in Requests, SetRedirectURL(r)
        PROVE  BlankOrLed'
    <3>1. error' = error /\ path' = Redirected(r) /\ r # "/" /\ r # ""
      BY <2>4, ApplicationAssumption DEF SetRedirectURL
    <3> QED
      BY <3>1 DEF BlankOrLed, Redirected
  <2>5. ASSUME NEW r \in Requests, DeliverError(r)
        PROVE  BlankOrLed'
    BY <2>5, Zenon DEF DeliverError, BlankOrLed
  <2>6. ASSUME NEW location \in {"/", path}, Load(location)
        PROVE  BlankOrLed'
    BY <2>6, Zenon DEF Load, BlankOrLed
  <2>7. CASE UNCHANGED vars
    BY <2>7 DEF vars, BlankOrLed, Idle
  <2> QED
    BY <2>1, <2>2, <2>3, <2>4, <2>5, <2>6, <2>7 DEF Next
<1>3. BlankOrLed => BlankOnlyBetween
  <2> SUFFICES ASSUME BlankOrLed, Idle PROVE Screen # "redirect"
    BY DEF BlankOnlyBetween
  <2>1. CASE error
    BY <2>1 DEF Screen
  <2>2. CASE ~error /\ path # "/"
    BY <2>2 DEF Screen
  <2>3. CASE ~error /\ path = "/" /\ ~redirect
    BY <2>3 DEF Screen
  <2> QED
    BY <2>1, <2>2, <2>3 DEF BlankOrLed
<1> QED
  BY <1>1, <1>2, <1>3, TypeCorrect, PTL DEF Spec

-----------------------------------------------------------------------------
\* Until the page is loaded anew, only an answer leads to the page of an invoice.
PathWasAnswered == path # "/" /\ loads = 0 => call[path] = "shown"

\* Only a refused create brings an error.
ErrorWasRefused == error => \E r \in Requests : call[r] = "refused"

Seen == PathWasAnswered /\ ErrorWasRefused /\ AnsweredIsOnPage

LEMMA SeenInit == Init => Seen
BY DEF Init, Seen, PathWasAnswered, ErrorWasRefused, AnsweredIsOnPage

\* A step that brings no answer and no refusal, and takes none away.
LEMMA SeenUnmoved ==
  ASSUME TypeOK, Seen, UNCHANGED <<path, error, loads>>,
         \A r \in Requests : /\ call'[r] = "shown" <=> call[r] = "shown"
                             /\ call'[r] = "refused" <=> call[r] = "refused"
  PROVE  Seen'
<1>1. path \in Requests \cup {"/"}
  BY DEF TypeOK
<1> QED
  BY <1>1 DEF Seen, PathWasAnswered, ErrorWasRefused, AnsweredIsOnPage

\* The page of the target before is already left for, or it is "".
TargetWasReached == redirectURL # "" => path # "/" \/ error

LEMMA TargetWasReachedAlways == Spec => []TargetWasReached
<1>1. Init => TargetWasReached
  BY Zenon DEF Init, TargetWasReached
<1>2. TargetWasReached /\ [Next]_vars => TargetWasReached'
  <2> SUFFICES ASSUME TargetWasReached, [Next]_vars PROVE TargetWasReached'
    OBVIOUS
  <2>1. ASSUME NEW r \in Requests, SetRedirectURL(r)
        PROVE  TargetWasReached'
    <3>1. error' = error /\ path' = Redirected(r) /\ r # "/" /\ r # ""
      BY <2>1, ApplicationAssumption DEF SetRedirectURL
    <3> QED
      BY <3>1 DEF TargetWasReached, Redirected
  <2>2. ASSUME NEW r \in Requests, Deliver(r)
        PROVE  TargetWasReached'
    <3>1. UNCHANGED <<redirectURL, error>> /\ path' = Redirected(redirectURL)
      BY <2>2, Zenon DEF Deliver
    <3> QED
      BY <3>1 DEF TargetWasReached, Redirected
  <2>3. ASSUME NEW r \in Requests, DeliverError(r)
        PROVE  TargetWasReached'
    BY <2>3, Zenon DEF DeliverError, TargetWasReached
  <2>4. ASSUME NEW location, Load(location)
        PROVE  TargetWasReached'
    BY <2>4, Zenon DEF Load, TargetWasReached
  <2>5. CASE UNCHANGED <<redirectURL, path, error>>
    BY <2>5 DEF TargetWasReached
  <2> QED
    BY <2>1, <2>2, <2>3, <2>4, <2>5 DEF Next, Type, Submit, ServerAnswers, CallFails, vars
<1> QED
  BY <1>1, <1>2, PTL DEF Spec

\* The first half of the callback leaves the location.
LEMMA SeenDeliver ==
  ASSUME TypeOK, Seen, TargetWasReached, NEW r \in Requests, Deliver(r)
  PROVE  Seen'
<1>1. UNCHANGED <<path, error, loads>>
  BY DEF Deliver, Redirected, TargetWasReached
<1>2. \A q \in Requests : /\ call'[q] = "shown" <=> call[q] = "shown"
                          /\ call'[q] = "refused" <=> call[q] = "refused"
  BY DEF Deliver, TypeOK
<1> QED
  BY <1>1, <1>2, SeenUnmoved

\* The answer of r is on the page, or another answer or an error came before.
LEMMA SeenSetRedirectURL ==
  ASSUME TypeOK, Seen, NEW r \in Requests, SetRedirectURL(r)
  PROVE  Seen'
<1>1. /\ call \in [Requests -> CallStates] /\ path \in Requests \cup {"/"} /\ error \in BOOLEAN
      /\ call[r] = "redirecting" /\ call' = [call EXCEPT ![r] = "shown"]
      /\ error' = error /\ loads' = loads
      /\ path' = IF path = "/" /\ ~error THEN r ELSE path
      /\ "/" \notin Requests
  BY ApplicationAssumption DEF TypeOK, SetRedirectURL, Redirected
<1>2. /\ call'[r] = "shown"
      /\ \A s \in Requests : s # r => call'[s] = call[s]
      /\ \A s \in Requests : call[s] = "refused" => call'[s] = "refused"
  BY <1>1
<1>3. PathWasAnswered'
  BY <1>1, <1>2 DEF Seen, PathWasAnswered
<1>4. ErrorWasRefused'
  BY <1>1, <1>2 DEF Seen, ErrorWasRefused
<1>5. ASSUME NEW s \in Requests, call'[s] = "shown"
      PROVE  \/ path' = s
             \/ path' \in Requests \ {s} /\ (loads' = 0 => call'[path'] = "shown")
             \/ error' /\ \E t \in Requests : call'[t] = "refused"
  <2>1. CASE error
    BY <1>1, <1>4, <2>1 DEF ErrorWasRefused
  <2>2. CASE path # "/"
    BY <1>1, <1>3, <2>2 DEF PathWasAnswered
  <2>3. CASE path = "/" /\ ~error
    <3>1. s = r
      BY <1>1, <1>2, <1>5, <2>3 DEF Seen, AnsweredIsOnPage
    <3> QED
      BY <1>1, <2>3, <3>1
  <2> QED
    BY <1>1, <2>1, <2>2, <2>3
<1> QED
  BY <1>3, <1>4, <1>5 DEF Seen, AnsweredIsOnPage

LEMMA SeenStep == TypeOK /\ Seen /\ TargetWasReached /\ [Next]_vars => Seen'
<1> SUFFICES ASSUME TypeOK, Seen, TargetWasReached, [Next]_vars PROVE Seen'
  OBVIOUS
<1>1. ASSUME NEW amount \in Amounts, Type(amount)
      PROVE  Seen'
  BY <1>1, SeenUnmoved DEF Type
<1>2. ASSUME NEW r \in Requests, Submit(r) \/ ServerAnswers(r) \/ CallFails(r)
      PROVE  Seen'
  BY <1>2, SeenUnmoved DEF Submit, ServerAnswers, CallFails, TypeOK
<1>3. ASSUME NEW r \in Requests, Deliver(r)
      PROVE  Seen'
  BY <1>3, SeenDeliver
<1>4. ASSUME NEW r \in Requests, SetRedirectURL(r)
      PROVE  Seen'
  BY <1>4, SeenSetRedirectURL
<1>5. ASSUME NEW r \in Requests, DeliverError(r)
      PROVE  Seen'
  <2>1. /\ call' = [call EXCEPT ![r] = "refused"] /\ call[r] = "failed"
        /\ call \in [Requests -> CallStates] /\ path \in Requests \cup {"/"}
        /\ error' = TRUE /\ path' = path /\ loads' = loads
    BY <1>5 DEF DeliverError, TypeOK
  <2>2. call'[r] = "refused" /\ \A s \in Requests : call[s] = "shown" => call'[s] = "shown"
    BY <2>1
  <2> QED
    BY <2>1, <2>2 DEF Seen, PathWasAnswered, ErrorWasRefused, AnsweredIsOnPage
<1>6. ASSUME NEW location \in {"/", path}, Load(location)
      PROVE  Seen'
  <2>1. loads' # 0 /\ ~error' /\ \A r \in Requests : call'[r] # "shown"
    <3>1. /\ loads' = loads + 1 /\ error' = FALSE
          /\ call' = [r \in Requests |-> IF call[r] = "unused" THEN "unused" ELSE "gone"]
      BY <1>6, Zenon DEF Load
    <3>2. loads \in Nat
      BY Zenon DEF TypeOK
    <3> QED
      BY <3>1, <3>2
  <2> QED
    BY <2>1 DEF Seen, PathWasAnswered, ErrorWasRefused, AnsweredIsOnPage
<1>7. CASE UNCHANGED vars
  BY <1>7, SeenUnmoved DEF vars
<1> QED
  BY <1>1, <1>2, <1>3, <1>4, <1>5, <1>6, <1>7 DEF Next

(***************************************************************************)
(* No answered invoice is lost from sight, however answers and failures    *)
(* of several creates meet (Application/index.jsx:27-31, 46-53).           *)
(***************************************************************************)
THEOREM AnswersAreSeen == Spec => []AnsweredIsOnPage
<1>1. Seen => AnsweredIsOnPage
  BY DEF Seen
<1> QED
  BY <1>1, TypeCorrect, TargetWasReachedAlways, SeenInit, SeenStep, PTL DEF Spec
=============================================================================
